---- MODULE Spec2Model ----
(***************************************************************************)
(* A model of the SPARQL-to-ThingTalk translator of rayslxu/qald:          *)
(*   - WikidataUtils (src/dist/lib/utils/wikidata.js): the cached,         *)
(*     retrying request primitive, getLabel/getAltLabels,                  *)
(*     getLabelsByBatch, getPropertyValue, getDomain                       *)
(*   - SPARQLToThingTalkConverter (src/lib/converter.ts): table folding    *)
(*     and program generation                                              *)
(*   - utils/misc (src/lib/utils/misc.ts): getSpans, similarity, closest.  *)
(*                                                                         *)
(* Conventions.  A JavaScript value that may be null/undefined is a        *)
(* sequence of length at most one: <<>> is null, <<v>> is v.  An id is a   *)
(* natural number: n >= 1 stands for the string "Q<n>", 0 for a string     *)
(* that does not match the id pattern.                                     *)
(***************************************************************************)
EXTENDS Integers, Sequences, FiniteSets, TLC

VARIABLES
    httpCache,   \* table http_requests: url -> response body (rows only)
    labelCache,  \* table labels: id -> label, <<>> for a null label
    pc,          \* per caller: where its _request call is suspended
    call,        \* per caller: the arguments of the running _request call
    body,        \* per caller: the response body Http.get resolved with
    netLog,      \* per caller: the network calls of the current operation
    outcome,     \* per caller: how the last operation ended
    calls,       \* number of operations started so far
    firstOk,     \* url -> the first successful caching request: its result,
                 \* its network calls and the attempt that succeeded
    afterOk,     \* per caller: the operation started after such a success
    bt,          \* per caller: the getLabelsByBatch call in progress
    dm,          \* per caller: the getPropertyValue or getDomain call in progress
    tables,      \* this._tables of the converter: subject -> Table
    keywords,    \* this._keywords of the converter
    cv,          \* per convert call: the parsed query and the position in it
    ms,          \* the call of a function of utils/misc: arguments and result
    dr           \* the run of a batch driver (main): items fed and written

kbVars == <<httpCache, labelCache, pc, call, body, netLog, outcome, calls,
            firstOk, afterOk, bt, dm>>

convVars == <<tables, keywords, cv>>

miscVars == <<ms, dr>>

vars == <<kbVars, convVars, miscVars>>

----------------------------------------------------------------------------
(* Bounds *)

\* operations started in one behaviour
MaxCalls == 3
\* distinct ids the callers ask about
MaxId == 1
\* full batches one getLabelsByBatch call may need
MaxBatches == 2
\* clauses in one WHERE list
MaxClauses == 2
\* triples in one query, over all its patterns
MaxTriples == 2
\* branches of one union
MaxBranches == 2
\* characters of a text getSpans is called with
MaxText == 4
\* words of a string similarity is called with
MaxTokens == 2
\* candidates of one closest call
MaxCandidates == 2
\* items of the questions file a batch driver reads
MaxItems == 3
\* conditions of one having clause
MaxHaving == 2

\* the callers that may have an operation in flight
Procs == {1}
Ids == 0..MaxId

Null == <<>>
Some(v) == <<v>>

Min2(a, b) == IF a <= b THEN a ELSE b

----------------------------------------------------------------------------
(* Values on the wire *)

ENTITY_PREFIX == "http://www.wikidata.org/entity/"

LabelA == "Europe"
LabelB == "Asia"

\* one entry of the "entities" object of a wbgetentities response
Entity(key, id, label, aliases) ==
    [key |-> key, id |-> id, label |-> label, aliases |-> aliases]

\* the parsed responses the endpoint may produce for a one-id request
ParsedFor(id) ==
    { [entities |-> <<Entity(id, id, Some(LabelA), Some(<<LabelB>>))>>],
      [entities |-> <<Entity(id, id, Null, Null)>>],
      [entities |-> <<>>] }

\* a response body: text that JSON.parse either accepts (wf) or rejects;
\* ws distinguishes bodies that differ only in insignificant whitespace
Body(wf, ws, val) == [wf |-> wf, ws |-> ws, val |-> val]

BadBody == Body(FALSE, 0, [entities |-> <<>>])

\* the bodies Http.get may resolve with for a request about id
BodiesFor(id) ==
    { Body(TRUE, 0, v) : v \in ParsedFor(id) }
        \cup { Body(TRUE, 1, [entities |-> <<Entity(id, id, Some(LabelA), Some(<<LabelB>>))>>]),
               BadBody }

\* the endpoint's answer for one id of a batch: every id labelled, or a mix
\* of redirects (the entity's id is not the key), labelled and unlabelled ids
EntityFor(id, shape) ==
    IF shape = "labelled" THEN Entity(id, id, Some(LabelA), Null)
    ELSE IF id % 3 = 0 THEN Entity(id, id + 1, Some(LabelB), Null)
    ELSE IF id % 3 = 1 THEN Entity(id, id, Some(LabelA), Null)
    ELSE Entity(id, id, Null, Null)

\* the bodies Http.get may resolve with for a request about a batch of ids
BatchBodies(ids) ==
    { Body(TRUE, 0, [entities |-> [i \in 1..Len(ids) |-> EntityFor(ids[i], shape)]]) :
         shape \in {"labelled", "mixed"} }
        \cup {BadBody}

\* the declared types (values of P31) the endpoint may report for an entity
HUMAN == "Q5"
TAXON == "Q16521"
CITY == "Q515"
COUNTRY == "Q6256"

TypeLists ==
    { <<>>, <<HUMAN>>, <<CITY>>, <<CITY, HUMAN>>, <<CITY, COUNTRY>>, <<CITY, TAXON>> }

\* one row of results.bindings: ?v bound to an entity URI
Binding(qid) == [v |-> [value |-> [prefix |-> ENTITY_PREFIX, name |-> qid]]]

\* the body of a SPARQL endpoint response with these rows
BindingsBody(qids) ==
    Body(TRUE, 0, [results |-> [bindings |-> [i \in 1..Len(qids) |-> Binding(qids[i])]]])

\* the bodies the endpoint may resolve with for the P31 query and for the
\* GROUP BY ?v ORDER BY DESC(?count) query of an entity
QueryBodies(kind) ==
    IF kind = "count"
    THEN {BindingsBody(l) : l \in {<<>>, <<CITY, COUNTRY>>, <<COUNTRY, CITY>>}}
            \cup {BadBody}
    ELSE {BindingsBody(l) : l \in TypeLists} \cup {BadBody}

\* the bodies for the call c of the request primitive
ResponseBodies(c) ==
    IF c.op = "batch" THEN BatchBodies(c.url.ids)
    ELSE IF c.op = "query" THEN QueryBodies(c.url.props)
    ELSE BodiesFor(c.id)

\* JSON.parse: throws on malformed text
ParseThrows(b) == ~b.wf
JSONParse(b) == b.val

----------------------------------------------------------------------------
(* WikidataUtils: the request primitive *)

\* wdk.getEntities({ ids, languages: ['en'], props }): the request URL is a
\* function of the ids and the props alone
GetEntitiesUrl(ids, props) == [ids |-> ids, props |-> props]

\* a SPARQL endpoint URL, ${URL}?query=..., for the property query of an id
QueryUrl(id) == [ids |-> <<id>>, props |-> "sparql"]

\* /[P|Q][0-9]+/.test(id)
IsWikidataId(id) == id >= 1

NoOutcome ==
    [kind |-> "none", cause |-> "", res |-> Null, label |-> Null,
     aliases |-> <<>>]
Raised(cause) ==
    [kind |-> "raise", cause |-> cause, res |-> Null, label |-> Null,
     aliases |-> <<>>]

\* getLabel's try block: Object.values(result.entities)[0].labels.en.value,
\* null when any step of the access throws
GetLabelResult(res) ==
    IF res = Null THEN Null
    ELSE IF res[1].entities = <<>> THEN Null
    ELSE res[1].entities[1].label

\* getAltLabels' try block: ...aliases.en.map(alias => alias.value), [] on throw
GetAltLabelsResult(res) ==
    IF res = Null THEN <<>>
    ELSE IF res[1].entities = <<>> THEN <<>>
    ELSE IF res[1].entities[1].aliases = Null THEN <<>>
    ELSE res[1].entities[1].aliases[1]

\* what the operation that awaited _request returns for the result res
Returned(op, res) ==
    [kind |-> "return", cause |-> "", res |-> res,
     label |-> IF op = "getLabel" THEN GetLabelResult(res) ELSE Null,
     aliases |-> IF op = "getAltLabels" THEN GetAltLabelsResult(res) ELSE <<>>]

\* the first statement of _request: with caching the cache is read first
EntryPc(caching) == IF caching THEN "getCache" ELSE "httpGet"

RetriesTwice(attempts) == attempts < 3

\* a catch block that would give up at once
NeverRetries(attempts) == FALSE

\* catch (e) { if (attempts < 2) return this._request(url, caching, attempts + 1)
ShouldRetry(attempts) == attempts < 2

\* the arguments of the recursive call
RetryCall(c) == [c EXCEPT !.attempts = c.attempts + 1, !.failed = c.failed + 1]

NeverStores(caching) == FALSE

\* if (caching) await this._setCache('http_requests', url, result)
StoresResponse(caching) == caching

\* insert into http_requests values (url, result): url is the primary key
InsertRow(cache, url, b) == cache @@ (url :> b)

HasRow(cache, key) == key \in DOMAIN cache

\* _request resolved with res
Finish(p, res) ==
    /\ pc' = [pc EXCEPT ![p] = "idle"]
    /\ outcome' = [outcome EXCEPT ![p] = Returned(call[p].op, res)]
    /\ firstOk' = IF call[p].caching /\ res # Null /\ ~HasRow(firstOk, call[p].url)
                  THEN firstOk @@ (call[p].url :>
                          [val |-> res[1], net |-> Len(netLog'[p]),
                           attempts |-> call[p].attempts])
                  ELSE firstOk

\* _request rejected: no caller catches it
Raise(p, cause) ==
    /\ pc' = [pc EXCEPT ![p] = "idle"]
    /\ outcome' = [outcome EXCEPT ![p] = Raised(cause)]
    /\ UNCHANGED firstOk

\* the catch block of _request
Catch(p) ==
    IF ShouldRetry(call[p].attempts)
    THEN /\ call' = [call EXCEPT ![p] = RetryCall(call[p])]
         /\ pc' = [pc EXCEPT ![p] = EntryPc(call[p].caching)]
         /\ UNCHANGED <<outcome, firstOk>>
    ELSE /\ call' = [call EXCEPT ![p].failed = call[p].failed + 1]
         /\ Finish(p, Null)

NewCall(op, id, url, caching) ==
    [op |-> op, id |-> id, url |-> url, caching |-> caching, attempts |-> 1,
     failed |-> 0]

Begin(p, c) ==
    /\ pc[p] = "idle"
    /\ calls < MaxCalls
    /\ calls' = calls + 1
    /\ call' = [call EXCEPT ![p] = c]
    /\ pc' = [pc EXCEPT ![p] = EntryPc(c.caching)]
    /\ netLog' = [netLog EXCEPT ![p] = <<>>]
    /\ outcome' = [outcome EXCEPT ![p] = NoOutcome]
    /\ afterOk' = [afterOk EXCEPT ![p] = c.caching /\ HasRow(firstOk, c.url)]
    /\ UNCHANGED <<httpCache, labelCache, body, firstOk, bt, dm, convVars, miscVars>>

\* a direct call _request(url, caching), as _query makes it
StartRequest(p) ==
    \E id \in Ids \ {0}, caching \in BOOLEAN :
        Begin(p, NewCall("request", id, QueryUrl(id), caching))

\* getLabel(id)
StartGetLabel(p) ==
    \E id \in Ids :
        IF IsWikidataId(id)
        THEN Begin(p, NewCall("getLabel", id, GetEntitiesUrl(<<id>>, "labels"), TRUE))
        ELSE /\ pc[p] = "idle"
             /\ calls < MaxCalls
             /\ calls' = calls + 1
             /\ call' = [call EXCEPT ![p] =
                            NewCall("getLabel", id, GetEntitiesUrl(<<id>>, "labels"), TRUE)]
             /\ netLog' = [netLog EXCEPT ![p] = <<>>]
             /\ outcome' = [outcome EXCEPT ![p] = Returned("getLabel", Null)]
             /\ afterOk' = [afterOk EXCEPT ![p] = FALSE]
             /\ UNCHANGED <<httpCache, labelCache, body, firstOk, pc, bt, dm, convVars,
                   miscVars>>

\* getAltLabels(id)
StartGetAltLabels(p) ==
    \E id \in Ids \ {0} :
        Begin(p, NewCall("getAltLabels", id, GetEntitiesUrl(<<id>>, "aliases"), TRUE))

\* await this._getCache('http_requests', 'result', { key: 'url', value: url })
\* and, on a hit, return JSON.parse(cached.result)
GetCacheStep(p) ==
    /\ pc[p] = "getCache"
    /\ UNCHANGED <<httpCache, labelCache, call, body, netLog, calls, afterOk, bt,
                   dm, convVars, miscVars>>
    /\ \E readError \in BOOLEAN :
          IF readError
          THEN Raise(p, "cacheRead")
          ELSE IF HasRow(httpCache, call[p].url)
          THEN IF ParseThrows(httpCache[call[p].url])
               THEN Raise(p, "parseCached")
               ELSE Finish(p, Some(JSONParse(httpCache[call[p].url])))
          ELSE /\ pc' = [pc EXCEPT ![p] = "httpGet"]
               /\ UNCHANGED <<outcome, firstOk>>

\* const parsed = JSON.parse(result); return parsed;  (inside the try block)
ParseAndReturn(p, b) ==
    IF ParseThrows(b) THEN Catch(p)
    ELSE Finish(p, Some(JSONParse(b))) /\ UNCHANGED call

\* await Tp.Helpers.Http.get(url, ...): one network call
HttpGetStep(p) ==
    /\ pc[p] = "httpGet"
    /\ netLog' = [netLog EXCEPT ![p] =
                    Append(@, [url |-> call[p].url, caching |-> call[p].caching,
                               attempts |-> call[p].attempts,
                               failed |-> call[p].failed])]
    /\ \E ok \in BOOLEAN :
          IF ~ok
          THEN Catch(p) /\ UNCHANGED body
          ELSE \E b \in ResponseBodies(call[p]) :
                  /\ body' = [body EXCEPT ![p] = b]
                  /\ IF StoresResponse(call[p].caching)
                     THEN /\ pc' = [pc EXCEPT ![p] = "setCache"]
                          /\ UNCHANGED <<call, outcome, firstOk>>
                     ELSE ParseAndReturn(p, b)
    /\ UNCHANGED <<httpCache, labelCache, calls, afterOk, bt, dm, convVars, miscVars>>

\* await this._setCache('http_requests', url, result), then parse and return
SetCacheStep(p) ==
    /\ pc[p] = "setCache"
    /\ UNCHANGED <<labelCache, body, netLog, calls, afterOk, bt, dm, convVars,
                   miscVars>>
    /\ \E writeError \in BOOLEAN :
          IF writeError \/ HasRow(httpCache, call[p].url)
          THEN Catch(p) /\ UNCHANGED httpCache
          ELSE /\ httpCache' = InsertRow(httpCache, call[p].url, body[p])
               /\ ParseAndReturn(p, body[p])

----------------------------------------------------------------------------
(* WikidataUtils.getLabelsByBatch *)

\* the step of the batch loop and the size of a slice
BatchLimit == 50

IdsUpTo(n) == [i \in 1..n |-> i]

\* the argument lists: n ids, each passed once or twice, with or without a
\* string that is not an id
Args(n, twice, invalid) ==
    (IF invalid THEN <<0>> ELSE <<>>) \o IdsUpTo(n)
        \o (IF twice THEN IdsUpTo(n) ELSE <<>>)
        \o (IF invalid THEN <<0>> ELSE <<>>)

ArgLists ==
    { Args(k * BatchLimit + d, twice, invalid) :
         k \in 0..MaxBatches, d \in {0, 1}, twice \in BOOLEAN, invalid \in BOOLEAN }

\* the rows of table labels when the call starts: none, a label for every
\* even id, a null label for the ids of the first batch
LabelCaches ==
    { <<>>,
      [id \in {i \in 1..(MaxBatches * BatchLimit + 1) : i % 2 = 0} |-> Some(LabelA)],
      [id \in 1..BatchLimit |-> Null] }

\* the first loop of getLabelsByBatch: the ids that pass the pattern and have
\* no row in table labels
Uncached(ids, cache) ==
    LET Misses(id) == IsWikidataId(id) /\ ~HasRow(cache, id)
    IN  SelectSeq(ids, Misses)

\* the first loop of getLabelsByBatch: result[id] = cached.label
CachedResult(ids, cache) ==
    [id \in {ids[i] : i \in {j \in 1..Len(ids) :
                                IsWikidataId(ids[j]) /\ HasRow(cache, ids[j])}}
        |-> cache[id]]

\* a list kept with its repetitions
KeepAll(seq) == seq

\* [...new Set(uncached)]: the first occurrence of each element, in order
Unique(seq) ==
    LET IsFirst(i) == \A j \in 1..(i - 1) : seq[j] # seq[i]
        firsts == SelectSeq([i \in 1..Len(seq) |-> i], IsFirst)
    IN  [k \in 1..Len(firsts) |-> seq[firsts[k]]]

\* uniqueUncached.slice(i, i + 50)
Slice(seq, from, to) == SubSeq(seq, from + 1, Min2(to, Len(seq)))

\* the loop over Object.entries(raw.entities): redirects are dropped, the
\* other labels go to the result and to table labels, whose key is the id; the
\* loop stops at the first insert the table rejects
\* every entry of a response is taken for the entity that was asked for
AnyEntry(qid, entity) == TRUE

\* if (qid !== entity.id) continue: a redirect reports another identifier
IsOwnEntry(qid, entity) == qid = entity.id

StoreLabels(st, entities) ==
    LET kept == {i \in 1..Len(entities) : IsOwnEntry(entities[i].key, entities[i])}
        rejected == {i \in kept : HasRow(st.cache, entities[i].key)}
        assigned == {i \in kept : \A j \in rejected : i <= j}
        inserted == assigned \ rejected
        labelOf(key) == entities[CHOOSE i \in assigned : entities[i].key = key].label
    IN  [ok |-> rejected = {},
         cache |-> [k \in DOMAIN st.cache \cup {entities[i].key : i \in inserted} |->
                       IF k \in DOMAIN st.cache THEN st.cache[k] ELSE labelOf(k)],
         result |-> [k \in DOMAIN st.result \cup {entities[i].key : i \in assigned} |->
                        IF k \in {entities[i].key : i \in assigned} THEN labelOf(k)
                        ELSE st.result[k]]]

NoBatch ==
    [phase |-> "new", ids |-> <<>>, cache0 |-> <<>>, unique |-> <<>>, i |-> 0,
     result |-> <<>>, seen |-> {}]

\* the call rejects
BatchRaise(p, cause) ==
    /\ bt' = [bt EXCEPT ![p].phase = "done"]
    /\ outcome' = [outcome EXCEPT ![p] = Raised(cause)]

\* getLabelsByBatch(...ids) up to the batch loop
StartBatch(p) ==
    /\ bt[p].phase = "new"
    /\ pc[p] = "idle"
    /\ calls' = calls + 1
    /\ netLog' = [netLog EXCEPT ![p] = <<>>]
    /\ \E ids \in ArgLists, readError \in BOOLEAN :
          IF readError
          THEN /\ \E i \in 1..Len(ids) : IsWikidataId(ids[i])
               /\ bt' = [bt EXCEPT ![p].phase = "done", ![p].cache0 = labelCache]
               /\ outcome' = [outcome EXCEPT ![p] = Raised("cacheRead")]
          ELSE /\ bt' = [bt EXCEPT ![p] =
                           [phase |-> "loop", ids |-> ids, cache0 |-> labelCache,
                            unique |-> Unique(Uncached(ids, labelCache)), i |-> 0,
                            result |-> CachedResult(ids, labelCache),
                            seen |-> {}]]
               /\ outcome' = [outcome EXCEPT ![p] = NoOutcome]
    /\ UNCHANGED <<httpCache, labelCache, pc, call, body, firstOk, afterOk, dm,
                   convVars, miscVars>>

\* one turn of the batch loop: _request for the next slice
BatchRequest(p) ==
    /\ bt[p].phase = "loop"
    /\ bt[p].i < Len(bt[p].unique)
    /\ call' = [call EXCEPT ![p] =
                   NewCall("batch", 0,
                           GetEntitiesUrl(Slice(bt[p].unique, bt[p].i,
                                                bt[p].i + BatchLimit), "labels"),
                           TRUE)]
    /\ pc' = [pc EXCEPT ![p] = EntryPc(TRUE)]
    /\ bt' = [bt EXCEPT ![p].phase = "await"]
    /\ outcome' = [outcome EXCEPT ![p] = NoOutcome]
    /\ UNCHANGED <<httpCache, labelCache, body, netLog, calls, firstOk, afterOk,
                   dm, convVars, miscVars>>

\* _request settled: raw.entities is read and the labels are stored
BatchResponse(p) ==
    /\ bt[p].phase = "await"
    /\ pc[p] = "idle"
    /\ IF outcome[p].kind = "raise"
       THEN bt' = [bt EXCEPT ![p].phase = "done"] /\ UNCHANGED <<outcome, labelCache>>
       ELSE IF outcome[p].res = Null
       THEN BatchRaise(p, "rawNull") /\ UNCHANGED labelCache
       ELSE \E writeError \in BOOLEAN :
               LET entities == outcome[p].res[1].entities
                   st == StoreLabels([ok |-> TRUE, cache |-> labelCache,
                                      result |-> bt[p].result], entities)
               IN  IF writeError
                   THEN /\ \E i \in 1..Len(entities) :
                               IsOwnEntry(entities[i].key, entities[i])
                        /\ BatchRaise(p, "cacheWrite")
                        /\ UNCHANGED labelCache
                   ELSE /\ labelCache' = st.cache
                        /\ IF st.ok
                           THEN /\ bt' = [bt EXCEPT ![p].phase = "loop",
                                                    ![p].result = st.result,
                                                    ![p].i = @ + BatchLimit,
                                                    ![p].seen = @ \cup {entities[j] : j \in
                                                        1..Len(entities)}]
                                /\ UNCHANGED outcome
                           ELSE BatchRaise(p, "cacheWrite")
    /\ UNCHANGED <<httpCache, pc, call, body, netLog, calls, firstOk, afterOk,
                   dm, convVars, miscVars>>

\* the loop is over: return result
BatchReturn(p) ==
    /\ bt[p].phase = "loop"
    /\ bt[p].i >= Len(bt[p].unique)
    /\ bt' = [bt EXCEPT ![p].phase = "done"]
    /\ outcome' = [outcome EXCEPT ![p] = Returned("batch", Null)]
    /\ UNCHANGED <<httpCache, labelCache, pc, call, body, netLog, calls, firstOk,
                   afterOk, dm, convVars, miscVars>>

----------------------------------------------------------------------------
(* WikidataUtils.getPropertyValue and getDomain *)

\* the URL of the query  SELECT ?v (COUNT(?s) as ?count) ... ORDER BY DESC(?count)
CountUrl(id) == [ids |-> <<id>>, props |-> "count"]

\* r.v.value.slice(ENTITY_PREFIX.length)
SliceEntity(r) == r.v.value.name

\* res.map((r) => r.v.value.slice(ENTITY_PREFIX.length))
MapValues(bindings) == [i \in 1..Len(bindings) |-> SliceEntity(bindings[i])]

Includes(arr, v) == \E i \in 1..Len(arr) : arr[i] = v

\* the human domain is never recognised
NeverHuman(domains) == FALSE

\* if (domains.includes('Q5')) return 'Q5'
IncludesHuman(domains) == Includes(domains, HUMAN)

\* this._bootleg.getType(entityId): the type index has an entry or none
BootlegTypes == {Null, Some(COUNTRY)}

NoDomain ==
    [phase |-> "new", op |-> "", id |-> 0, domains |-> <<>>, consulted |-> FALSE,
     bootleg |-> Null, status |-> "none", result |-> Null]

\* the operation resolves with v
DomainReturn(p, v) ==
    dm' = [dm EXCEPT ![p].phase = "done", ![p].status = "return", ![p].result = v]

\* the operation rejects
DomainRaise(p) ==
    dm' = [dm EXCEPT ![p].phase = "done", ![p].status = "raise"]

\* _query(sparql) up to its await of _request
BeginQuery(p, op, id, url) ==
    /\ dm[p].phase \in {"new", "done"}
    /\ pc[p] = "idle"
    /\ calls < MaxCalls
    /\ calls' = calls + 1
    /\ call' = [call EXCEPT ![p] = NewCall("query", id, url, TRUE)]
    /\ pc' = [pc EXCEPT ![p] = EntryPc(TRUE)]
    /\ netLog' = [netLog EXCEPT ![p] = <<>>]
    /\ outcome' = [outcome EXCEPT ![p] = NoOutcome]
    /\ afterOk' = [afterOk EXCEPT ![p] = HasRow(firstOk, url)]
    /\ dm' = [dm EXCEPT ![p] = [NoDomain EXCEPT !.phase = "types", !.op = op,
                                                !.id = id]]
    /\ UNCHANGED <<httpCache, labelCache, body, firstOk, bt, convVars, miscVars>>

\* getPropertyValue(entityId, 'P31')
StartGetPropertyValue(p) ==
    \E id \in Ids \ {0} : BeginQuery(p, "getPropertyValue", id, QueryUrl(id))

\* getDomain(entityId)
StartGetDomain(p) ==
    \E id \in Ids \ {0} : BeginQuery(p, "getDomain", id, QueryUrl(id))

\* _request settled for the P31 query: _query reads result.results.bindings,
\* getPropertyValue maps the rows, getDomain runs up to its next await
TypesResponse(p) ==
    /\ dm[p].phase = "types"
    /\ pc[p] = "idle"
    /\ IF outcome[p].kind = "raise"
       THEN DomainRaise(p)
       ELSE IF outcome[p].res = Null
       THEN DomainRaise(p)
       ELSE LET domains == MapValues(outcome[p].res[1].results.bindings)
            IN  IF dm[p].op = "getPropertyValue"
                THEN dm' = [dm EXCEPT ![p].phase = "done", ![p].status = "return",
                                      ![p].domains = domains,
                                      ![p].result = Some(domains)]
                ELSE IF Len(domains) = 0
                THEN dm' = [dm EXCEPT ![p].phase = "done", ![p].status = "return",
                                      ![p].domains = domains, ![p].result = Null]
                ELSE IF IncludesHuman(domains)
                THEN dm' = [dm EXCEPT ![p].phase = "done", ![p].status = "return",
                                      ![p].domains = domains,
                                      ![p].result = Some(HUMAN)]
                ELSE dm' = [dm EXCEPT ![p].phase = "bootleg", ![p].domains = domains]
    /\ UNCHANGED <<httpCache, labelCache, pc, call, body, netLog, outcome, calls,
                   firstOk, afterOk, bt, convVars, miscVars>>

\* await this._bootleg.getType(entityId) and the rest of getDomain up to
\* the count query
BootlegStep(p) ==
    /\ dm[p].phase = "bootleg"
    /\ \E bootlegType \in BootlegTypes :
          LET d == [dm[p] EXCEPT !.consulted = TRUE, !.bootleg = bootlegType]
              domains == dm[p].domains
              returns(v) ==
                  /\ dm' = [dm EXCEPT ![p] = [d EXCEPT !.phase = "done",
                                                       !.status = "return",
                                                       !.result = Some(v)]]
                  /\ UNCHANGED <<pc, call, netLog, outcome, afterOk>>
          IN  IF bootlegType # Null THEN returns(bootlegType[1])
              ELSE IF Len(domains) = 1 THEN returns(domains[1])
              ELSE IF Includes(domains, TAXON) THEN returns(TAXON)
              ELSE /\ dm' = [dm EXCEPT ![p] = [d EXCEPT !.phase = "count"]]
                   /\ call' = [call EXCEPT ![p] =
                                  NewCall("query", dm[p].id, CountUrl(dm[p].id), TRUE)]
                   /\ pc' = [pc EXCEPT ![p] = EntryPc(TRUE)]
                   /\ netLog' = [netLog EXCEPT ![p] = <<>>]
                   /\ outcome' = [outcome EXCEPT ![p] = NoOutcome]
                   /\ afterOk' = [afterOk EXCEPT ![p] =
                                     HasRow(firstOk, CountUrl(dm[p].id))]
    /\ UNCHANGED <<httpCache, labelCache, body, calls, firstOk, bt, convVars, miscVars>>

\* _request settled for the count query: return res[0].v.value.slice(...)
CountResponse(p) ==
    /\ dm[p].phase = "count"
    /\ pc[p] = "idle"
    /\ IF outcome[p].kind = "raise"
       THEN DomainRaise(p)
       ELSE IF outcome[p].res = Null
       THEN DomainRaise(p)
       ELSE LET res == outcome[p].res[1].results.bindings
            IN  IF Len(res) = 0
                THEN DomainRaise(p)
                ELSE DomainReturn(p, Some(SliceEntity(res[1])))
    /\ UNCHANGED <<httpCache, labelCache, pc, call, body, netLog, outcome, calls,
                   firstOk, afterOk, bt, convVars, miscVars>>

----------------------------------------------------------------------------
(* SPARQLToThingTalkConverter: terms, schema, values *)

\* A string is a sequence of one-character strings.
PROPERTY_PREFIX == "http://www.wikidata.org/prop/direct/"

\* an RDF term as sparqljs returns it; its value is prefix followed by name
Term(termType, prefix, name) ==
    [termType |-> termType, prefix |-> prefix, name |-> name]
Var(name) == Term("Variable", "", name)
Ent(name) == Term("NamedNode", ENTITY_PREFIX, name)
Prop(name) == Term("NamedNode", PROPERTY_PREFIX, name)
Lit(name) == Term("Literal", "", name)

\* term.value, the key of this._tables
ValueOf(term) == [prefix |-> term.prefix, name |-> term.name]

Triple(s, p, o) == [subject |-> s, predicate |-> p, object |-> o]

\* WikiSchema.getTable: undefined for a domain the manifest does not declare
GetTable(qid) == IF qid = "Q6256" THEN Some("country") ELSE Null

\* WikiSchema.getProperty
GetProperty(pid) ==
    CASE pid = "P30" -> Some("continent")
      [] pid = "P36" -> Some("capital")
      [] pid = "P1082" -> Some("population")
      [] OTHER -> Null

\* WikiSchema.getPropertyType
GetPropertyType(pid) ==
    CASE pid = "P30" -> Some([array |-> TRUE, elem |-> "Entity"])
      [] pid = "P36" -> Some([array |-> FALSE, elem |-> "Entity"])
      [] pid = "P1082" -> Some([array |-> FALSE, elem |-> "Number"])
      [] OTHER -> Null

\* what WikidataUtils.getLabel resolves with for the entities of the queries
KbLabel(qid) ==
    CASE qid = "Q46" -> Some(<<"e", "u">>)
      [] qid = "Q64" -> Some(<<"b", "e">>)
      [] OTHER -> Null

\* fastest-levenshtein distance(a, b)
RECURSIVE Distance(_, _)
Distance(a, b) ==
    IF a = <<>> THEN Len(b)
    ELSE IF b = <<>> THEN Len(a)
    ELSE Min2(Min2(Distance(Tail(a), b) + 1, Distance(a, Tail(b)) + 1),
              Distance(Tail(a), Tail(b)) + (IF Head(a) = Head(b) THEN 0 ELSE 1))

\* fastest-levenshtein closest(str, arr): the first element at the least
\* distance; arr[0], that is undefined, for an empty arr
RECURSIVE ClosestIndex(_, _, _, _, _)
ClosestIndex(str, arr, i, minDistance, minIndex) ==
    IF i > Len(arr) THEN minIndex
    ELSE IF minDistance < 0 \/ Distance(str, arr[i]) < minDistance
         THEN ClosestIndex(str, arr, i + 1, Distance(str, arr[i]), i)
         ELSE ClosestIndex(str, arr, i + 1, minDistance, minIndex)

Closest(str, arr) ==
    IF arr = <<>> THEN Null ELSE Some(arr[ClosestIndex(str, arr, 1, -1, 1)])

\* tokenizer.tokenize(keyword).rawTokens.join(' '): the tokens of the keyword
\* joined by single spaces
RECURSIVE JoinTokens(_, _)
JoinTokens(chars, pendingSpace) ==
    IF chars = <<>> THEN <<>>
    ELSE IF Head(chars) = " " THEN JoinTokens(Tail(chars), TRUE)
    ELSE (IF pendingSpace THEN <<" ">> ELSE <<>>)
             \o <<Head(chars)>> \o JoinTokens(Tail(chars), FALSE)

RECURSIVE DropLeadingSpaces(_)
DropLeadingSpaces(chars) ==
    IF chars # <<>> /\ Head(chars) = " " THEN DropLeadingSpaces(Tail(chars))
    ELSE chars

Tokenize(keyword) == JoinTokens(DropLeadingSpaces(keyword), FALSE)

\* _reset: this._keywords = keywords.map(...)
ResetKeywords(kws) == [i \in 1..Len(kws) |-> Tokenize(kws[i])]

\* new Ast.Value.Entity(value, type, display)
EntityValue(code, type, display) ==
    [code |-> code, type |-> type, display |-> display]

Thrown == [ok |-> FALSE, val |-> Null]
Ok(v) == [ok |-> TRUE, val |-> Some(v)]

\* _toThingTalkValue(value, propertyType): value is the term's value
ToThingTalkValue(value, propertyType, kw) ==
    IF propertyType = Null THEN Thrown
    ELSE IF propertyType[1].elem # "Entity" THEN Thrown
    ELSE IF value.prefix # ENTITY_PREFIX THEN Thrown
    ELSE IF KbLabel(value.name) = Null THEN Thrown
    ELSE Ok(EntityValue(value.name, "Entity",
                        Closest(KbLabel(value.name)[1], kw)))

Atom(field, operator, value) ==
    [tag |-> "atom", field |-> field, operator |-> operator, value |-> value]
AndExp(operands) == [tag |-> "and", operands |-> operands]
OrExp(operands) == [tag |-> "or", operands |-> operands]

\* the default operator of _atomFilter
DefaultOperator(propertyType) ==
    IF propertyType # Null /\ propertyType[1].array THEN "contains" ELSE "=="

\* _atomFilter('id', value)
IdFilter(value, kw) ==
    LET v == ToThingTalkValue(value, Some([array |-> FALSE, elem |-> "Entity"]), kw)
    IN  IF v.ok THEN Ok(Atom(Some("id"), "==", v.val[1])) ELSE Thrown

\* _atomFilter(predicate, value) for a property predicate
AtomFilter(predicate, value, kw) ==
    LET type == GetPropertyType(predicate.name)
        v == ToThingTalkValue(value, type, kw)
    IN  IF v.ok
        THEN Ok(Atom(GetProperty(predicate.name), DefaultOperator(type), v.val[1]))
        ELSE Thrown

----------------------------------------------------------------------------
(* SPARQLToThingTalkConverter: tables and clause folding *)

EmptyTable ==
    [domain |-> Some("entity"), projections |-> <<>>, filters |-> <<>>,
     verifications |-> <<>>]

\* _initTable
InitTable(tabs, subject) ==
    IF subject \in DOMAIN tabs THEN tabs ELSE tabs @@ (subject :> EmptyTable)

\* an _addFilter that would put the filter in place of the earlier ones
ReplaceFilters(tabs, subject, filter) ==
    [InitTable(tabs, subject) EXCEPT ![subject].filters = <<filter>>]

\* _addFilter
AddFilter(tabs, subject, filter) ==
    [InitTable(tabs, subject) EXCEPT ![subject].filters = Append(@, filter)]

\* _addProjection
AddProjection(tabs, subject, projection) ==
    [InitTable(tabs, subject) EXCEPT ![subject].projections = Append(@, projection)]

\* _addVerification
AddVerification(tabs, subject, verification) ==
    [InitTable(tabs, subject) EXCEPT ![subject].verifications = Append(@, verification)]

\* _setDomain
SetDomain(tabs, subject, domain) ==
    [InitTable(tabs, subject) EXCEPT ![subject].domain = GetTable(domain)]

\* a push that keeps only the last filter of a subject
RECURSIVE PushReplacing(_, _, _)
PushReplacing(fbs, subject, filter) ==
    IF fbs = <<>> THEN <<[subject |-> subject, filters |-> <<filter>>]>>
    ELSE IF Head(fbs).subject = subject
         THEN <<[Head(fbs) EXCEPT !.filters = <<filter>>]>> \o Tail(fbs)
         ELSE <<Head(fbs)>> \o PushReplacing(Tail(fbs), subject, filter)

\* filtersBySubject, in insertion order: a sequence of [subject, filters]
RECURSIVE FbsPush(_, _, _)
FbsPush(fbs, subject, filter) ==
    IF fbs = <<>> THEN <<[subject |-> subject, filters |-> <<filter>>]>>
    ELSE IF Head(fbs).subject = subject
         THEN <<[Head(fbs) EXCEPT !.filters = Append(@, filter)]>> \o Tail(fbs)
         ELSE <<Head(fbs)>> \o FbsPush(Tail(fbs), subject, filter)

IsEntityNode(term) ==
    term.termType = "NamedNode" /\ term.prefix = ENTITY_PREFIX

IsTypePredicate(term) ==
    term.termType = "NamedNode" /\ term.prefix = PROPERTY_PREFIX /\ term.name = "P31"

Fail(st) == [st EXCEPT !.ok = FALSE]

\* the body of the loop of _convertTriples for one triple; st holds the
\* tables, filtersBySubject and whether nothing has thrown so far
ConvertTriple(st, t, kw) ==
    LET subject == ValueOf(t.subject)
        object == ValueOf(t.object)
        idf == IdFilter(subject, kw)
        af == AtomFilter(t.predicate, object, kw)
        varSubjectNodeObject ==
            t.subject.termType = "Variable" /\ t.object.termType = "NamedNode"
        continues == varSubjectNodeObject /\ IsTypePredicate(t.predicate)
        s1 == IF ~IsEntityNode(t.subject) THEN st
              ELSE IF idf.ok
                   THEN [st EXCEPT !.tables = AddFilter(@, subject, idf.val[1])]
                   ELSE Fail(st)
        s2 == IF ~s1.ok \/ ~varSubjectNodeObject THEN s1
              ELSE IF continues
                   THEN [s1 EXCEPT !.tables = SetDomain(@, subject, t.object.name)]
                   ELSE IF af.ok
                        THEN [s1 EXCEPT !.fbs = FbsPush(@, subject, af.val[1])]
                        ELSE Fail(s1)
        s3 == IF ~s2.ok \/ continues \/ t.object.termType # "Variable" THEN s2
              ELSE [s2 EXCEPT !.tables =
                       AddProjection(@, subject,
                                     [variable |-> t.object.name,
                                      property |-> GetProperty(t.predicate.name)])]
        s4 == IF ~s3.ok \/ continues
                 \/ ~(t.subject.termType = "NamedNode" /\ t.object.termType = "NamedNode")
              THEN s3
              ELSE IF af.ok
                   THEN [s3 EXCEPT !.tables = AddVerification(@, subject, af.val[1])]
                   ELSE Fail(s3)
    IN  s4

\* the end of _convertTriples: one filter per subject
Converted(fbs) ==
    [i \in 1..Len(fbs) |->
        [subject |-> fbs[i].subject,
         filter |-> IF Len(fbs[i].filters) = 1 THEN fbs[i].filters[1]
                    ELSE AndExp(fbs[i].filters)]]

\* _convertTriples(triples), from the tables tabs
RECURSIVE ConvertTriplesFrom(_, _, _)
ConvertTriplesFrom(st, triples, kw) ==
    IF triples = <<>> \/ ~st.ok THEN st
    ELSE ConvertTriplesFrom(ConvertTriple(st, Head(triples), kw), Tail(triples), kw)

ConvertTriples(tabs, triples, kw) ==
    ConvertTriplesFrom([ok |-> TRUE, tables |-> tabs, fbs |-> <<>>], triples, kw)

\* the loop of _parseBasic over the converted filters
RECURSIVE AddFilters(_, _)
AddFilters(tabs, converted) ==
    IF converted = <<>> THEN tabs
    ELSE AddFilters(AddFilter(tabs, Head(converted).subject, Head(converted).filter),
                    Tail(converted))

\* _parseBasic(where)
ParseBasic(tabs, triples, kw) ==
    LET st == ConvertTriples(tabs, triples, kw)
    IN  IF st.ok THEN [st EXCEPT !.tables = AddFilters(@, Converted(st.fbs))]
        ELSE st

\* String(undefined), the key _addFilter uses when no subject was found
UndefinedKey == [prefix |-> "", name |-> "undefined"]

NewUnion == [ok |-> TRUE, existed |-> Null, operands |-> <<>>]

\* a merge that takes the filters of any subject
RECURSIVE MergeAnySubject(_, _)
MergeAnySubject(un, converted) ==
    IF converted = <<>> THEN un
    ELSE MergeAnySubject([un EXCEPT !.existed = IF @ = Null
                                                THEN Some(Head(converted).subject)
                                                ELSE @,
                                    !.operands = Append(@, Head(converted).filter)],
                         Tail(converted))

\* the inner loop of _parseUnion over one branch's converted filters
RECURSIVE UnionMerge(_, _)
UnionMerge(un, converted) ==
    IF converted = <<>> \/ ~un.ok THEN un
    ELSE IF un.existed = Null
         THEN UnionMerge([un EXCEPT !.existed = Some(Head(converted).subject),
                                    !.operands = Append(@, Head(converted).filter)],
                         Tail(converted))
         ELSE IF Head(converted).subject # un.existed[1]
              THEN [un EXCEPT !.ok = FALSE]
              ELSE UnionMerge([un EXCEPT !.operands = Append(@, Head(converted).filter)],
                              Tail(converted))

\* the last statement of _parseUnion
UnionEnd(tabs, un) ==
    AddFilter(tabs, IF un.existed = Null THEN UndefinedKey ELSE un.existed[1],
              OrExp(un.operands))

----------------------------------------------------------------------------
(* SPARQLToThingTalkConverter.convert: generation *)

\* an entry of parsed.variables: a variable term, the wildcard, or an
\* expression with an alias (which has no value)
VarTerm(name) == [kind |-> "variable", name |-> name]
Wildcard == [kind |-> "wildcard", name |-> "*"]
\* (COUNT(?name) as ?count): an entry with expression and variable, no value
CountOf(name) == [kind |-> "aggregate", name |-> name]

Range(seq) == {seq[i] : i \in 1..Len(seq)}

\* the loop over parsed.variables: the names, unless one is not a plain variable
VariableNames(variables) ==
    IF \E i \in 1..Len(variables) : variables[i].kind # "variable" THEN Thrown
    ELSE Ok([i \in 1..Len(variables) |-> variables[i].name])

\* variables.includes(subject)
IncludesSubject(names, subject) ==
    subject.prefix = "" /\ subject.name \in Range(names)

RECURSIVE SelectedProperties(_, _)
SelectedProperties(names, projections) ==
    IF projections = <<>> THEN <<>>
    ELSE (IF Head(projections).variable \in Range(names)
          THEN <<Head(projections).property>> ELSE <<>>)
             \o SelectedProperties(names, Tail(projections))

\* the projections the loop body collects for one table
SelectedProjections(names, subject, table) ==
    (IF IncludesSubject(names, subject) THEN <<Some("id")>> ELSE <<>>)
        \o SelectedProperties(names, table.projections)

Expression(domain, filter, projection, verification) ==
    [domain |-> domain, filter |-> filter, projection |-> projection,
     verification |-> verification]

\* table.filters wrapped in one And, if there is any
FilterOf(table) ==
    IF Len(table.filters) > 0 THEN Some(AndExp(table.filters)) ELSE Null

\* an assertion that lets a boolean question keep its selected projections
AssertsNothing(projections) == TRUE

\* assert(projections.length === 0)
AssertNoProjection(projections) == Len(projections) = 0

\* a test that lets any number of queries through
AtLeastOne(n) == n >= 1

\* the body of the loop over this._tables: the assertion throws, the table is
\* skipped, or it pushes one query
TableQuery(names, subject, table) ==
    LET projections == SelectedProjections(names, subject, table)
    IN  IF Len(table.verifications) > 0
        THEN IF ~AssertNoProjection(projections) THEN [kind |-> "throw", query |-> Null]
             ELSE [kind |-> "query",
                   query |-> Some(Expression(table.domain, FilterOf(table), Null,
                       Some(IF Len(table.verifications) > 1
                            THEN AndExp(table.verifications)
                            ELSE table.verifications[1])))]
        ELSE IF Len(projections) = 0 THEN [kind |-> "skip", query |-> Null]
             ELSE IF ~(Len(projections) = 1 /\ projections[1] = Some("id"))
                  THEN [kind |-> "query",
                        query |-> Some(Expression(table.domain, FilterOf(table),
                                                  Some(projections), Null))]
                  ELSE [kind |-> "query",
                        query |-> Some(Expression(table.domain, FilterOf(table),
                                                  Null, Null))]

\* queries.length === 1
ExactlyOne(n) == n = 1

NoProgram == [kind |-> "failed", program |-> Null]
MakeProgram(query) == [kind |-> "program", program |-> Some(query)]

\* convert, after the clauses: the program, or a failure
Generate(tabs, variables) ==
    LET names == VariableNames(variables)
        result(subject) == TableQuery(names.val[1], subject, tabs[subject])
        pushing == {subject \in DOMAIN tabs : result(subject).kind = "query"}
    IN  IF ~names.ok THEN NoProgram
        ELSE IF \E subject \in DOMAIN tabs : result(subject).kind = "throw"
             THEN NoProgram
             ELSE IF ExactlyOne(Cardinality(pushing))
                  THEN MakeProgram(result(CHOOSE subject \in pushing : TRUE).query[1])
                  ELSE NoProgram

----------------------------------------------------------------------------
(* SPARQLToThingTalkConverter: the having clause *)

\* no having clause met; present says that parsed.having is there, group is
\* parsed.group, n counts the conditions _parseHavingClause has taken and
\* last is the latest of them
NoHaving == [present |-> FALSE, group |-> Null, n |-> 0, last |-> Null]

\* an aggregate expression of sparqljs
Aggregate(aggregation, distinct, expression) ==
    [type |-> "aggregate", aggregation |-> aggregation, distinct |-> distinct,
     expression |-> expression]

\* a having condition of sparqljs: an operation on two arguments, or another
\* expression (a function call)
Operation(operator, lhs, rhs) ==
    [type |-> "operation", operator |-> operator, args |-> <<lhs, rhs>>]
FunctionCall == [type |-> "functionCall", operator |-> "", args |-> <<>>]

\* isNaN(rhs.value): Number('') is 0, so the empty string is not NaN
IsNaN(str) == str \notin {"5", ""}

\* parseFloat(rhs.value); Null stands for NaN
ParseFloat(str) == IF str = "5" THEN Some(5) ELSE Null

\* _aggregateFilter: > and < get an = appended
InclusiveOperator(operator) ==
    IF operator = ">" THEN ">="
    ELSE IF operator = "<" THEN "<=" ELSE operator

\* _aggregateFilter
AggregateFilter(aggregation, operands, operator, value) ==
    [tag |-> "compute", aggregation |-> aggregation, operands |-> operands,
     operator |-> InclusiveOperator(operator), value |-> value]

\* this._tables[subject].projections.find((proj) => proj.variable === variable)
FindProjection(projections, variable) ==
    LET at == {i \in 1..Len(projections) : projections[i].variable = variable}
    IN  IF at = {} THEN Null
        ELSE Some(projections[CHOOSE i \in at : \A j \in at : i <= j])

\* _parseHavingClause(having, group): the tables after it, or a throw
ParseHavingClause(tabs, having, group) ==
    LET subject == ValueOf(group.expression)
        lhs == having.args[1]
        rhs == having.args[2]
        projection == FindProjection(tabs[subject].projections, lhs.expression.name)
    IN  IF group.expression.termType # "Variable" THEN [ok |-> FALSE, tables |-> tabs]
        ELSE IF subject \notin DOMAIN tabs THEN [ok |-> FALSE, tables |-> tabs]
        ELSE IF having.type # "operation" THEN [ok |-> FALSE, tables |-> tabs]
        ELSE IF Len(having.args) # 2 THEN [ok |-> FALSE, tables |-> tabs]
        ELSE IF ~(lhs.type = "aggregate" /\ ~lhs.distinct /\ lhs.aggregation = "count"
                    /\ lhs.expression.termType = "Variable")
             THEN [ok |-> FALSE, tables |-> tabs]
        ELSE IF projection = Null THEN [ok |-> FALSE, tables |-> tabs]
        ELSE IF ~(rhs.termType = "Literal" /\ ~IsNaN(rhs.name))
             THEN [ok |-> FALSE, tables |-> tabs]
        ELSE [ok |-> TRUE,
              tables |-> AddFilter(tabs, subject,
                             AggregateFilter("count", <<projection[1].property>>,
                                             having.operator, ParseFloat(rhs.name)))]

----------------------------------------------------------------------------
(* converter2: QueryParser._parseWhere *)

IsFilterClause(type) == type = "filter"
IsOtherClause(type) == type # "filter"

\* the order _parseWhere visits the clauses in: the filters last
ParseWhereOrder(where) ==
    SelectSeq(where, IsOtherClause) \o SelectSeq(where, IsFilterClause)

\* QueryParser._parseWhereClause returns (TRUE) or throws (FALSE); helperOk
\* is whether the triple or union helper returns for this clause
ParseWhereClause2(type, helperOk) ==
    IF type = "bgp" THEN helperOk
    ELSE IF type = "filter" THEN FALSE
    ELSE IF type = "union" THEN helperOk
    ELSE FALSE

\* QueryParser._parseWhere returns
ParseWhere2(where, helperOk) ==
    \A i \in 1..Len(ParseWhereOrder(where)) :
        ParseWhereClause2(ParseWhereOrder(where)[i], helperOk[i])

----------------------------------------------------------------------------
(* utils/misc: getSpans, similarity, closest *)

\* a batch driver that has not been started
NoDriver == [main |-> "none", drop |-> FALSE, fed |-> 0, inflight |-> {},
             output |-> <<>>, dropped |-> <<>>, logged |-> <<>>,
             failed |-> {}, exited |-> FALSE]

\* no function of utils/misc has been called
NoMisc ==
    [op |-> "none", s |-> <<>>, t |-> <<>>, arr |-> <<>>, algorithm |-> "f1",
     threshold |-> <<0, 1>>, done |-> FALSE, result |-> Null]

\* exact fractions <<numerator, denominator>> with a positive denominator
\* stand for the numbers similarity computes
Frac(n, d) == <<n, d>>
FracEq(a, b) == a[1] * b[2] = b[1] * a[2]
FracLess(a, b) == a[1] * b[2] < b[1] * a[2]
FracLeq(a, b) == a[1] * b[2] <= b[1] * a[2]
FracMul(a, b) == <<a[1] * b[1], a[2] * b[2]>>
FracAdd(a, b) == <<a[1] * b[2] + b[1] * a[2], a[2] * b[2]>>
\* a / b for b > 0
FracDiv(a, b) == <<a[1] * b[2], a[2] * b[1]>>

\* v.replace(/[.!?]$/g, ''): one '.', '!' or '?' at the very end is removed
removeEndPunctuation(v) ==
    IF v # <<>> /\ v[Len(v)] \in {".", "!", "?"} THEN SubSeq(v, 1, Len(v) - 1)
    ELSE v

\* \s of a regular expression
IsWhitespace(ch) == ch \in {" ", "\t"}

\* String.prototype.split with a separator that matches one character:
\* a token between every two neighbouring separators, empty ones included
SplitAt(str, seps) ==
    LET cuts == <<0>> \o SelectSeq([i \in 1..Len(str) |-> i], LAMBDA i : i \in seps)
                     \o <<Len(str) + 1>>
    IN  [k \in 1..(Len(cuts) - 1) |-> SubSeq(str, cuts[k] + 1, cuts[k + 1] - 1)]

\* s.split(' ')
SplitOnSpace(str) == SplitAt(str, {i \in 1..Len(str) : str[i] = " "})

\* s.split(/\s+/): a run of whitespace is one separator, so the only empty
\* tokens are the one before leading and the one after trailing whitespace
SplitOnWhitespace(str) ==
    LET single == SplitAt(str, {i \in 1..Len(str) : IsWhitespace(str[i])})
        keep == {k \in 1..Len(single) : k = 1 \/ k = Len(single) \/ single[k] # <<>>}
    IN  SelectSeq([k \in 1..Len(single) |-> <<k, single[k]>>],
                  LAMBDA e : e[1] \in keep)

\* the tokens of SplitOnWhitespace without their positions
TokensOf(str) ==
    LET split == SplitOnWhitespace(str) IN [k \in 1..Len(split) |-> split[k][2]]

\* tokens.join(' ')
RECURSIVE JoinWithSpace(_)
JoinWithSpace(tokens) ==
    IF tokens = <<>> THEN <<>>
    ELSE IF Len(tokens) = 1 THEN tokens[1]
    ELSE tokens[1] \o <<" ">> \o JoinWithSpace(Tail(tokens))

\* the inner loop of getSpans: the spans of one length, by start position
SpansOfLength(tokens, len) ==
    [index \in 1..(Len(tokens) - len + 1) |->
        JoinWithSpace(SubSeq(tokens, index, index + len - 1))]

\* the outer loop of getSpans, from length len on
RECURSIVE SpansFrom(_, _)
SpansFrom(tokens, len) ==
    IF len > Len(tokens) THEN <<>>
    ELSE SpansOfLength(tokens, len) \o SpansFrom(tokens, len + 1)

\* getSpans(s)
getSpans(str) == SpansFrom(TokensOf(removeEndPunctuation(str)), 1)

\* s.toLowerCase(), on the letters of the model
ToLowerCase(str) == [i \in 1..Len(str) |-> IF str[i] = "B" THEN "b" ELSE str[i]]

\* the English list of the stopword package, restricted to the model's words
StopWords == {<<"a">>}

\* removeStopwords(tokens)
removeStopwords(tokens) == SelectSeq(tokens, LAMBDA tok : tok \notin StopWords)

\* stemmer(removeAccent(s)): the model's letters carry no accent, and the
\* stemmer drops the plural s of a word of more than two letters
clean(tok) ==
    IF Len(tok) > 2 /\ tok[Len(tok)] = "s" /\ tok[Len(tok) - 1] # "s"
    THEN SubSeq(tok, 1, Len(tok) - 1)
    ELSE tok

\* removeStopwords(s.toLowerCase().split(' ')).map(clean)
CleanTokens(str) ==
    LET kept == removeStopwords(SplitOnSpace(ToLowerCase(str)))
    IN  [i \in 1..Len(kept) |-> clean(kept[i])]

\* an intersection that counts a repeated token once
DistinctIntersect(arr1, arr2) ==
    SelectSeq([i \in 1..Len(arr1) |-> <<i, arr1[i]>>],
              LAMBDA e : /\ \E j \in 1..Len(arr2) : arr2[j] = e[2]
                         /\ \A h \in 1..(e[1] - 1) : arr1[h] # e[2])

\* arr1.filter((v) => arr2.includes(v))
Intersect(arr1, arr2) ==
    SelectSeq(arr1, LAMBDA v : \E j \in 1..Len(arr2) : arr2[j] = v)

\* [...new Set([...arr1, ...arr2])].length
UnionSize(arr1, arr2) ==
    Cardinality({arr1[i] : i \in 1..Len(arr1)} \cup {arr2[j] : j \in 1..Len(arr2)})

\* similarity(s1, s2, algorithm)
similarity(s1, s2, algorithm) ==
    LET arr1 == CleanTokens(s1)
        arr2 == CleanTokens(s2)
        intersect == Intersect(arr1, arr2)
        precision == Frac(Len(intersect), Len(arr1))
        recall == Frac(Len(intersect), Len(arr2))
    IN  IF Len(arr1) = 0 \/ Len(arr2) = 0 THEN Frac(0, 1)
        ELSE IF algorithm = "jaccard"
        THEN Frac(Len(intersect), UnionSize(arr1, arr2))
        ELSE IF precision[1] = 0 \/ recall[1] = 0 THEN Frac(0, 1)
        ELSE FracDiv(FracMul(Frac(2, 1), FracMul(precision, recall)),
                     FracAdd(precision, recall))

\* a candidate is discarded only when it scores below the threshold
DiscardsBelow(score, threshold) == FracLess(score, threshold)

\* if (score <= discard_threshold) continue
Discards(score, threshold) == FracLeq(score, threshold)

\* the loop of closest over arr[i..], with the best candidate so far
RECURSIVE ClosestFrom(_, _, _, _, _, _, _)
ClosestFrom(str, arr, algorithm, threshold, i, best, maxSimilarity) ==
    IF i > Len(arr) THEN best
    ELSE LET score == similarity(str, arr[i], algorithm)
         IN  IF Discards(score, threshold)
             THEN ClosestFrom(str, arr, algorithm, threshold, i + 1, best,
                              maxSimilarity)
             ELSE IF FracLess(maxSimilarity, score)
             THEN ClosestFrom(str, arr, algorithm, threshold, i + 1,
                              Some(arr[i]), score)
             ELSE ClosestFrom(str, arr, algorithm, threshold, i + 1, best,
                              maxSimilarity)

\* closest(s, arr, algorithm, discard_threshold) of utils/misc
closest(str, arr, algorithm, threshold) ==
    ClosestFrom(str, arr, algorithm, threshold, 1, Null, Frac(-1, 1))

----------------------------------------------------------------------------
(* SPARQLToThingTalkConverter.convert: the calls *)

Convs == {1}

\* the triples the queries are made of
Pool ==
    { Triple(Var("x"), Prop("P31"), Ent("Q6256")),
      Triple(Var("x"), Prop("P30"), Ent("Q46")),
      Triple(Var("x"), Prop("P36"), Ent("Q64")),
      Triple(Var("z"), Prop("P30"), Ent("Q46")),
      Triple(Var("x"), Prop("P36"), Var("y")),
      Triple(Ent("Q46"), Prop("P30"), Ent("Q64")),
      Triple(Ent("Q46"), Prop("P36"), Var("y")),
      Triple(Var("x"), Prop("P30"), Ent("Q3")),
      Triple(Var("x"), Prop("P36"), Lit("Berlin")) }

\* the triples of "how many countries are there in europe"
CountryInEurope ==
    << Triple(Var("x"), Prop("P31"), Ent("Q6256")),
       Triple(Var("x"), Prop("P30"), Ent("Q46")) >>

\* the keyword lists convert is called with
KeywordLists ==
    { <<>>,
      << <<"b", " ", " ", "e">>, <<"e">> >> }

\* parsed.variables; none for an ASK query
VariableLists ==
    { <<>>,
      <<VarTerm("x")>>,
      <<VarTerm("y")>>,
      <<Wildcard>>,
      <<CountOf("x")>> }

ClauseTypes == {"bgp", "union", "filter", "optional"}

NoTables == [subject \in {} |-> EmptyTable]

NotStarted == [kind |-> "none", program |-> Null]

IdleConv ==
    [pc |-> "idle", where |-> <<>>, ci |-> 0, triples |-> <<>>, base |-> NoTables,
     fbs |-> <<>>, un |-> NewUnion, branches |-> <<>>, used |-> 0,
     variables |-> <<>>, failedAt |-> "none", out |-> NotStarted,
     prior |-> "none", left |-> 0, hv |-> NoHaving]

\* convert throws
ConvFail(c, at) ==
    cv' = [cv EXCEPT ![c].pc = "done", ![c].failedAt = at, ![c].out = NoProgram]

\* a _reset that would leave the Tables of the earlier call in place
KeepsTables(tabs) == tabs

\* _reset: this._tables = {}
ResetTables(tabs) == NoTables

\* convert(sparql, keywords): _reset and the parse
ConvertStart(c) ==
    /\ cv[c].pc = "idle"
    /\ \E kws \in KeywordLists :
        /\ tables' = ResetTables(tables)
        /\ keywords' = ResetKeywords(kws)
        /\ cv' = [cv EXCEPT ![c] = [IdleConv EXCEPT !.pc = "where"]]
    /\ UNCHANGED <<kbVars, miscVars>>

\* convert called again on the same converter after the earlier call
\* returned or threw: _reset and the parse; the locals of convert are new;
\* prior and left record how the earlier call ended and how many Tables it
\* left in this._tables
ConvertAgain(c) ==
    /\ cv[c].pc = "done"
    /\ \E kws \in KeywordLists :
        /\ tables' = ResetTables(tables)
        /\ keywords' = ResetKeywords(kws)
        /\ cv' = [cv EXCEPT ![c] =
                     [IdleConv EXCEPT !.pc = "where",
                                      !.prior = IF cv[c].out = NoProgram
                                                THEN "failed" ELSE "returned",
                                      !.left = Cardinality(DOMAIN tables)]]
    /\ UNCHANGED <<kbVars, miscVars>>

\* a dispatch that would take a filter clause for a pattern without triples
LenientDispatch(type) ==
    IF type \in {"bgp", "filter"} THEN "bgp"
    ELSE IF type = "union" THEN "union" ELSE "throw"

\* the dispatch of _parseWhereClause on where.type
Dispatch(type) ==
    IF type = "bgp" THEN "bgp"
    ELSE IF type = "union" THEN "union" ELSE "throw"

\* the loop over parsed.where reaches a clause, which _parseWhereClause takes
\* for a basic pattern: _parseBasic starts _convertTriples
BeginBasic(c) ==
    /\ cv[c].pc = "where"
    /\ Len(cv[c].where) < MaxClauses
    /\ \E type \in ClauseTypes :
        /\ Dispatch(type) = "bgp"
        /\ cv' = [cv EXCEPT ![c].pc = "bgp", ![c].where = Append(@, type),
                            ![c].ci = @ + 1, ![c].triples = <<>>,
                            ![c].base = tables, ![c].fbs = <<>>,
                            ![c].branches = <<>>]
    /\ UNCHANGED <<kbVars, miscVars, tables, keywords>>

\* the next clause is one _parseWhereClause takes for a union: _parseUnion
\* starts
BeginUnion(c) ==
    /\ cv[c].pc = "where"
    /\ Len(cv[c].where) < MaxClauses
    /\ \E type \in ClauseTypes :
        /\ Dispatch(type) = "union"
        /\ cv' = [cv EXCEPT ![c].pc = "union", ![c].where = Append(@, type),
                            ![c].ci = @ + 1, ![c].triples = <<>>,
                            ![c].base = tables, ![c].fbs = <<>>,
                            ![c].un = NewUnion, ![c].branches = <<>>]
    /\ UNCHANGED <<kbVars, miscVars, tables, keywords>>

\* the next clause is of any other type: _parseWhereClause throws
UnsupportedClause(c) ==
    /\ cv[c].pc = "where"
    /\ Len(cv[c].where) < MaxClauses
    /\ \E type \in ClauseTypes :
        /\ Dispatch(type) = "throw"
        /\ cv' = [cv EXCEPT ![c].pc = "done", ![c].where = Append(@, type),
                            ![c].failedAt = "clause", ![c].out = NoProgram]
    /\ UNCHANGED <<kbVars, miscVars, tables, keywords>>

\* one iteration of the loop of _convertTriples
FoldTriple(c) ==
    /\ cv[c].pc \in {"bgp", "branch"}
    /\ cv[c].used < MaxTriples
    /\ \E t \in Pool :
        LET st == ConvertTriple([ok |-> TRUE, tables |-> tables, fbs |-> cv[c].fbs],
                                t, keywords)
        IN  /\ tables' = st.tables
            /\ IF st.ok
               THEN cv' = [cv EXCEPT ![c].fbs = st.fbs, ![c].used = @ + 1,
                                     ![c].triples = Append(@, t)]
               ELSE cv' = [cv EXCEPT ![c].pc = "done", ![c].failedAt = "triple",
                                     ![c].triples = Append(@, t),
                                     ![c].out = NoProgram]
    /\ UNCHANGED <<kbVars, miscVars, keywords>>

\* _convertTriples returns and _parseBasic adds the converted filters
EndBasic(c) ==
    /\ cv[c].pc = "bgp"
    /\ tables' = AddFilters(tables, Converted(cv[c].fbs))
    /\ cv' = [cv EXCEPT ![c].pc = "where"]
    /\ UNCHANGED <<kbVars, miscVars, keywords>>

\* the next pattern of the union: the assertion on its type, then
\* _convertTriples starts
BeginBranch(c) ==
    /\ cv[c].pc = "union"
    /\ Len(cv[c].branches) < MaxBranches
    /\ \E isBasic \in BOOLEAN :
        IF isBasic
        THEN cv' = [cv EXCEPT ![c].pc = "branch", ![c].fbs = <<>>, ![c].triples = <<>>]
        ELSE ConvFail(c, "pattern")
    /\ UNCHANGED <<kbVars, miscVars, tables, keywords>>

\* _convertTriples returns to _parseUnion, which merges the branch's filters
EndBranch(c) ==
    /\ cv[c].pc = "branch"
    /\ LET converted == Converted(cv[c].fbs)
           un == UnionMerge(cv[c].un, converted)
       IN  IF un.ok
           THEN cv' = [cv EXCEPT ![c].pc = "union", ![c].un = un,
                                 ![c].branches = Append(@, converted)]
           ELSE cv' = [cv EXCEPT ![c].pc = "done", ![c].failedAt = "merge",
                                 ![c].branches = Append(@, converted),
                                 ![c].out = NoProgram]
    /\ UNCHANGED <<kbVars, miscVars, tables, keywords>>

\* after the last pattern of where.patterns, _parseUnion adds the Or filter
EndUnion(c) ==
    /\ cv[c].pc = "union"
    /\ Len(cv[c].branches) >= 1
    /\ tables' = UnionEnd(tables, cv[c].un)
    /\ cv' = [cv EXCEPT ![c].pc = "where"]
    /\ UNCHANGED <<kbVars, miscVars, keywords>>

\* the entries of parsed.group, each with its expression; Null when the query
\* has no group by
GroupBy(expression) == [expression |-> expression]
Groups ==
    { Null,
      Some(<<GroupBy(Var("x"))>>),
      Some(<<GroupBy(Var("y"))>>),
      Some(<<GroupBy(Var("x")), GroupBy(Var("y"))>>),
      Some(<<GroupBy(Term("Operation", "", "+"))>>) }

\* the having conditions of the queries
HavingConditions ==
    { Operation(op, Aggregate("count", FALSE, Var("y")), Lit("5")) : op \in {">", "<", "="} }
      \cup
    { Operation(">", lhs, Lit("5")) :
        lhs \in { Aggregate("count", TRUE, Var("y")),
                  Aggregate("sum", FALSE, Var("y")),
                  Aggregate("count", FALSE, Var("z")),
                  Aggregate("count", FALSE, Term("Wildcard", "", "*")),
                  Aggregate("none", FALSE, Var("y")) } }
      \cup
    { Operation(">", Aggregate("count", FALSE, Var("y")), rhs) :
        rhs \in { Lit(""), Lit("abc"), Var("y") } }
      \cup
    { FunctionCall }

\* the where clauses are folded and the query has a having clause: the test
\* parsed.having && parsed.group and the assertion on parsed.group
HavingStart(c) ==
    /\ cv[c].pc = "where"
    /\ \E group \in Groups :
        IF group = Null
        THEN cv' = [cv EXCEPT ![c].pc = "having",
                              ![c].hv = [NoHaving EXCEPT !.present = TRUE]]
        ELSE IF Len(group[1]) # 1
             THEN cv' = [cv EXCEPT ![c].pc = "done", ![c].failedAt = "having",
                                   ![c].out = NoProgram,
                                   ![c].hv = [NoHaving EXCEPT !.present = TRUE,
                                                              !.group = group]]
             ELSE cv' = [cv EXCEPT ![c].pc = "having",
                                   ![c].hv = [NoHaving EXCEPT !.present = TRUE,
                                                              !.group = group]]
    /\ UNCHANGED <<kbVars, miscVars, tables, keywords>>

\* one iteration of the loop over parsed.having
HavingStep(c) ==
    /\ cv[c].pc = "having"
    /\ cv[c].hv.group # Null
    /\ cv[c].hv.n < MaxHaving
    /\ \E having \in HavingConditions :
        LET r == ParseHavingClause(tables, having, cv[c].hv.group[1][1])
        IN  /\ tables' = r.tables
            /\ IF r.ok
               THEN cv' = [cv EXCEPT ![c].hv.n = @ + 1, ![c].hv.last = Some(having)]
               ELSE cv' = [cv EXCEPT ![c].pc = "done", ![c].failedAt = "having",
                                     ![c].out = NoProgram,
                                     ![c].hv.n = @ + 1, ![c].hv.last = Some(having)]
    /\ UNCHANGED <<kbVars, miscVars, keywords>>

\* after the last clause, and after the having conditions of a query that
\* has some: the variables, the loop over the tables, the result
GenerateStep(c) ==
    /\ \/ cv[c].pc = "where"
       \/ cv[c].pc = "having" /\ (cv[c].hv.group = Null \/ cv[c].hv.n >= 1)
    /\ \E variables \in VariableLists :
        cv' = [cv EXCEPT ![c].pc = "done", ![c].variables = variables,
                         ![c].failedAt = IF Generate(tables, variables).kind = "failed"
                                         THEN "generate" ELSE "none",
                         ![c].out = Generate(tables, variables)]
    /\ UNCHANGED <<kbVars, miscVars, tables, keywords>>

----------------------------------------------------------------------------
(* The accessor alone: callers issuing requests and label lookups *)

InitKb ==
    /\ httpCache = <<>>
    /\ labelCache = <<>>
    /\ pc = [p \in Procs |-> "idle"]
    /\ call = [p \in Procs |-> NewCall("request", 1, QueryUrl(1), TRUE)]
    /\ body = [p \in Procs |-> BadBody]
    /\ netLog = [p \in Procs |-> <<>>]
    /\ outcome = [p \in Procs |-> NoOutcome]
    /\ calls = 0
    /\ firstOk = <<>>
    /\ afterOk = [p \in Procs |-> FALSE]
    /\ bt = [p \in Procs |-> NoBatch]
    /\ dm = [p \in Procs |-> NoDomain]

InitConverter ==
    /\ tables = NoTables
    /\ keywords = <<>>
    /\ cv = [c \in Convs |-> IdleConv]
    /\ ms = NoMisc
    /\ dr = NoDriver

InitRequest == InitKb /\ InitConverter

NextRequest ==
    \E p \in Procs :
        \/ StartRequest(p)
        \/ StartGetLabel(p)
        \/ StartGetAltLabels(p)
        \/ GetCacheStep(p)
        \/ HttpGetStep(p)
        \/ SetCacheStep(p)

SpecRequest == InitRequest /\ [][NextRequest]_vars

\* two callers of the request primitive on one accessor, their requests
\* overlapping; every Http.get resolves with well-formed JSON and sqlite
\* fails only on the primary key of http_requests
Callers == {1, 2}

InitCallers ==
    /\ httpCache = <<>>
    /\ labelCache = <<>>
    /\ pc = [p \in Callers |-> "idle"]
    /\ call = [p \in Callers |-> NewCall("request", 1, QueryUrl(1), TRUE)]
    /\ body = [p \in Callers |-> BadBody]
    /\ netLog = [p \in Callers |-> <<>>]
    /\ outcome = [p \in Callers |-> NoOutcome]
    /\ calls = 0
    /\ firstOk = <<>>
    /\ afterOk = [p \in Callers |-> FALSE]
    /\ bt = [p \in Procs |-> NoBatch]
    /\ dm = [p \in Procs |-> NoDomain]
    /\ InitConverter

NextCallers ==
    \E p \in Callers :
        \/ StartRequest(p)
        \/ (GetCacheStep(p) /\ outcome'[p].kind # "raise")
        \/ (HttpGetStep(p) /\ call'[p] = call[p] /\ ~ParseThrows(body'[p]))
        \/ (SetCacheStep(p)
               /\ (HasRow(httpCache, call[p].url) \/ httpCache' # httpCache))

SpecCallers == InitCallers /\ [][NextCallers]_vars


\* getPropertyValue and getDomain calls, one after the other, over one cache
NextDomain ==
    \E p \in Procs :
        \/ StartGetPropertyValue(p)
        \/ StartGetDomain(p)
        \/ GetCacheStep(p)
        \/ HttpGetStep(p)
        \/ SetCacheStep(p)
        \/ TypesResponse(p)
        \/ BootlegStep(p)
        \/ CountResponse(p)

SpecDomain == InitRequest /\ [][NextDomain]_vars

----------------------------------------------------------------------------
(* One getLabelsByBatch call, from a label cache earlier calls have filled *)

InitBatch ==
    /\ labelCache \in LabelCaches
    /\ httpCache = <<>>
    /\ pc = [p \in Procs |-> "idle"]
    /\ call = [p \in Procs |-> NewCall("request", 1, QueryUrl(1), TRUE)]
    /\ body = [p \in Procs |-> BadBody]
    /\ netLog = [p \in Procs |-> <<>>]
    /\ outcome = [p \in Procs |-> NoOutcome]
    /\ calls = 0
    /\ firstOk = <<>>
    /\ afterOk = [p \in Procs |-> FALSE]
    /\ bt = [p \in Procs |-> NoBatch]
    /\ dm = [p \in Procs |-> NoDomain]
    /\ InitConverter

NextBatch ==
    \E p \in Procs :
        \/ StartBatch(p)
        \/ BatchRequest(p)
        \/ GetCacheStep(p)
        \/ HttpGetStep(p)
        \/ SetCacheStep(p)
        \/ BatchResponse(p)
        \/ BatchReturn(p)

SpecBatch == InitBatch /\ [][NextBatch]_vars

----------------------------------------------------------------------------
(* The converter alone: convert calls on one converter *)

InitConv == InitKb /\ InitConverter

NextConv ==
    \E c \in Convs :
        \/ ConvertStart(c)
        \/ BeginBasic(c)
        \/ BeginUnion(c)
        \/ UnsupportedClause(c)
        \/ FoldTriple(c)
        \/ EndBasic(c)
        \/ BeginBranch(c)
        \/ EndBranch(c)
        \/ EndUnion(c)
        \/ GenerateStep(c)

SpecConv == InitConv /\ [][NextConv]_vars

\* the triples of the queries that have a having clause
HavingTriples ==
    { Triple(Var("x"), Prop("P31"), Ent("Q6256")),
      Triple(Var("x"), Prop("P36"), Var("y")) }

\* one convert call on a query with one basic pattern and a having clause
NextHaving ==
    \E c \in Convs :
        \/ ConvertStart(c)
        \/ (cv[c].where = <<>> /\ BeginBasic(c))
        \/ (FoldTriple(c) /\ Range(cv'[c].triples) \subseteq HavingTriples)
        \/ EndBasic(c)
        \/ HavingStart(c)
        \/ HavingStep(c)
        \/ GenerateStep(c)

SpecHaving == InitConv /\ [][NextHaving]_vars

\* one converter used for one query after another, as the batch driver of
\* converter.ts does; each query has one clause in its where
NextRepeat ==
    \E c \in Convs :
        \/ ConvertStart(c)
        \/ ConvertAgain(c)
        \/ (cv[c].where = <<>> /\ (BeginBasic(c) \/ BeginUnion(c) \/ UnsupportedClause(c)))
        \/ FoldTriple(c)
        \/ EndBasic(c)
        \/ BeginBranch(c)
        \/ EndBranch(c)
        \/ EndUnion(c)
        \/ GenerateStep(c)

SpecRepeat == InitConv /\ [][NextRepeat]_vars

----------------------------------------------------------------------------
(* Two convert calls on one converter, the second started while the first *)
(* is suspended inside _convertTriples; each query is one basic pattern   *)
(* made of the triples of the country-in-Europe query                     *)

OverlapConvs == {1, 2}

InitOverlap ==
    /\ InitKb
    /\ tables = NoTables
    /\ keywords = <<>>
    /\ cv = [c \in OverlapConvs |-> IdleConv]
    /\ ms = NoMisc
    /\ dr = NoDriver

NextOverlap ==
    \/ ConvertStart(1)
    \/ cv[1].pc = "bgp" /\ ConvertStart(2)
    \/ \E c \in OverlapConvs :
          \/ cv[c].where = <<>> /\ BeginBasic(c)
          \/ FoldTriple(c) /\ Range(cv'[c].triples) \subseteq Range(CountryInEurope)
          \/ EndBasic(c)
          \/ GenerateStep(c)

SpecOverlap == InitOverlap /\ [][NextOverlap]_vars

----------------------------------------------------------------------------
(* The functions of utils/misc alone: one call on arguments of bounded size *)

\* the strings of at most n characters over an alphabet
StringsUpTo(alphabet, n) == UNION {[1..k -> alphabet] : k \in 0..n}

\* the texts getSpans is called with
SpanTexts(n) == StringsUpTo({"a", "b", " ", "."}, n)

\* the words of the strings similarity is called with: a stopword, a word in
\* both cases, a word and its plural, and the empty word that two
\* neighbouring spaces leave
SimilarityWords == {<<"a">>, <<"b">>, <<"B">>, <<"b", "b">>, <<"b", "b", "s">>, <<>>}

\* the strings of at most n of these words, one space between two words
Phrases(n) ==
    {JoinWithSpace(ws) : ws \in UNION {[1..k -> SimilarityWords] : k \in 1..n}}

\* the targets, candidates and thresholds closest is called with
ClosestTargets == {<<"b">>, <<"b", " ", "b", "b">>, <<"a">>}
ClosestCandidates ==
    {<<"b">>, <<"b", "b">>, <<"b", " ", "b">>, <<"b", "b", "s", " ", "b">>, <<"a">>}
Thresholds == {Frac(-1, 1), Frac(0, 1), Frac(1, 2), Frac(1, 1)}
Algorithms == {"jaccard", "f1"}

\* the arguments of one call of getSpans, similarity or closest
MiscCall(m) ==
    \/ \E str \in SpanTexts(MaxText) : m = [NoMisc EXCEPT !.op = "getSpans", !.s = str]
    \/ \E s1 \in Phrases(MaxTokens), s2 \in Phrases(MaxTokens), alg \in Algorithms :
          m = [NoMisc EXCEPT !.op = "similarity", !.s = s1, !.t = s2,
                             !.algorithm = alg]
    \/ \E str \in ClosestTargets, alg \in Algorithms, th \in Thresholds :
          \E arr \in UNION {[1..k -> ClosestCandidates] : k \in 0..MaxCandidates} :
              m = [NoMisc EXCEPT !.op = "closest", !.s = str, !.arr = arr,
                                 !.algorithm = alg, !.threshold = th]

CallGetSpans ==
    /\ ms.op = "getSpans" /\ ~ms.done
    /\ ms' = [ms EXCEPT !.done = TRUE, !.result = getSpans(ms.s)]
    /\ UNCHANGED <<kbVars, convVars, dr>>

CallSimilarity ==
    /\ ms.op = "similarity" /\ ~ms.done
    /\ ms' = [ms EXCEPT !.done = TRUE,
                        !.result = similarity(ms.s, ms.t, ms.algorithm)]
    /\ UNCHANGED <<kbVars, convVars, dr>>

CallClosest ==
    /\ ms.op = "closest" /\ ~ms.done
    /\ ms' = [ms EXCEPT !.done = TRUE,
                        !.result = closest(ms.s, ms.arr, ms.algorithm, ms.threshold)]
    /\ UNCHANGED <<kbVars, convVars, dr>>

InitMisc ==
    /\ InitKb
    /\ tables = NoTables
    /\ keywords = <<>>
    /\ cv = [c \in Convs |-> IdleConv]
    /\ MiscCall(ms)
    /\ dr = NoDriver

NextMisc == CallGetSpans \/ CallSimilarity \/ CallClosest

SpecMisc == InitMisc /\ [][NextMisc]_vars

----------------------------------------------------------------------------
(* The batch drivers: main of converter.ts, which awaits each convert in  *)
(* a for-await loop inside try/catch, and the earlier main kept in        *)
(* utils/schemaorg.ts, which converts in an async 'data' listener         *)

\* the runs of main: which main, and whether --drop was given (only the
\* main of converter.ts has the option)
DriverStart(d) ==
    \/ \E sink \in BOOLEAN : d = [NoDriver EXCEPT !.main = "loop", !.drop = sink]
    \/ d = [NoDriver EXCEPT !.main = "data"]

\* for await (const item of pipeline): the next item is pulled when the
\* body of the loop has finished; the body starts converter.convert
LoopPull ==
    /\ dr.main = "loop" /\ dr.inflight = {} /\ dr.fed < MaxItems
    /\ dr' = [dr EXCEPT !.fed = @ + 1, !.inflight = {dr.fed + 1}]
    /\ UNCHANGED <<kbVars, convVars, ms>>

\* convert resolved: args.output.write
LoopWrite(i) ==
    /\ dr.main = "loop" /\ i \in dr.inflight
    /\ dr' = [dr EXCEPT !.inflight = @ \ {i}, !.output = Append(@, i)]
    /\ UNCHANGED <<kbVars, convVars, ms>>

\* convert rejected: console.log, and args.drop.write if args.drop
LoopCatch(i) ==
    /\ dr.main = "loop" /\ i \in dr.inflight
    /\ dr' = [dr EXCEPT !.inflight = @ \ {i}, !.failed = @ \cup {i},
                        !.logged = Append(@, i),
                        !.dropped = IF dr.drop THEN Append(@, i) ELSE @]
    /\ UNCHANGED <<kbVars, convVars, ms>>

\* pipeline.on('data', async (item) => ...): the stream emits the next item
\* whether or not the listeners of the earlier items have finished
DataEvent ==
    /\ dr.main = "data" /\ ~dr.exited /\ dr.fed < MaxItems
    /\ dr' = [dr EXCEPT !.fed = @ + 1, !.inflight = @ \cup {dr.fed + 1}]
    /\ UNCHANGED <<kbVars, convVars, ms>>

\* convert resolved in a listener: args.output.write
DataWrite(i) ==
    /\ dr.main = "data" /\ ~dr.exited /\ i \in dr.inflight
    /\ dr' = [dr EXCEPT !.inflight = @ \ {i}, !.output = Append(@, i)]
    /\ UNCHANGED <<kbVars, convVars, ms>>

\* convert rejected in a listener: nothing catches it; the runtime either
\* ends the process (unhandled rejection) or only warns
DataReject(i) ==
    /\ dr.main = "data" /\ ~dr.exited /\ i \in dr.inflight
    /\ \E exits \in BOOLEAN :
          dr' = [dr EXCEPT !.inflight = @ \ {i}, !.failed = @ \cup {i},
                           !.exited = exits]
    /\ UNCHANGED <<kbVars, convVars, ms>>

InitDriver ==
    /\ InitKb
    /\ tables = NoTables
    /\ keywords = <<>>
    /\ cv = [c \in Convs |-> IdleConv]
    /\ ms = NoMisc
    /\ DriverStart(dr)

NextDriver ==
    \/ LoopPull
    \/ DataEvent
    \/ \E i \in 1..MaxItems : LoopWrite(i) \/ LoopCatch(i) \/ DataWrite(i) \/ DataReject(i)

SpecDriver == InitDriver /\ [][NextDriver]_vars

----------------------------------------------------------------------------
(* Claims about the request primitive *)

Finished(p) == pc[p] = "idle" /\ outcome[p].kind # "none"

\* C1 (as amended): once a caching-enabled request for a URL has completed
\* successfully, every later caching-enabled request for that URL makes no
\* network call and any result it returns equals the first; the two requests
\* together make only the network calls of the first one, which is one when
\* its first attempt succeeded and two when its retry succeeded.
C1_CacheRoundTrip ==
    \A p \in Procs :
        afterOk[p] =>
            /\ netLog[p] = <<>>
            /\ outcome[p].kind = "return" =>
                   outcome[p].res = Some(firstOk[call[p].url].val)
            /\ firstOk[call[p].url].net + Len(netLog[p])
                   = firstOk[call[p].url].attempts
            /\ firstOk[call[p].url].attempts \in 1..2

\* C1 witness: a later request has been served from the cache
C1_Witness ==
    \E p \in Procs :
        /\ afterOk[p]
        /\ Finished(p)
        /\ outcome[p].kind = "return"
        /\ outcome[p].res # Null
        /\ netLog[p] = <<>>

\* C1 as stated: the two requests make exactly one network call in total
C1_Original ==
    \A p \in Procs :
        afterOk[p] =>
            /\ netLog[p] = <<>>
            /\ outcome[p].kind = "return" =>
                   outcome[p].res = Some(firstOk[call[p].url].val)
            /\ firstOk[call[p].url].net + Len(netLog[p]) = 1

\* C2: one call of the request primitive makes at most two network calls; the
\* second follows a failed first attempt and carries the same URL and caching
\* setting; when both attempts failed the call returns null.
C2_RetryBound ==
    \A p \in Procs :
        /\ Len(netLog[p]) <= 2
        /\ \A i \in 1..Len(netLog[p]) :
              /\ netLog[p][i].url = netLog[p][1].url
              /\ netLog[p][i].caching = netLog[p][1].caching
              /\ netLog[p][i].failed = i - 1
        /\ (Finished(p) /\ call[p].failed = 2) =>
              /\ outcome[p].kind = "return"
              /\ outcome[p].res = Null

\* C2 witness: a call whose two network attempts both failed has returned null
C2_Witness ==
    \E p \in Procs :
        /\ Finished(p)
        /\ Len(netLog[p]) = 2
        /\ call[p].failed = 2
        /\ outcome[p].res = Null

\* C3 (the claim): no operation of the accessor raises; on every kind of
\* failure the request returns null, getLabel null and getAltLabels [].
C3_NeverRaises ==
    \A p \in Procs :
        Finished(p) =>
            /\ outcome[p].kind = "return"
            /\ outcome[p].res = Null =>
                   outcome[p].label = Null /\ outcome[p].aliases = <<>>

----------------------------------------------------------------------------
(* Claims about the converter *)

\* the atoms of a list of filters, inside And and Or as well
RECURSIVE AtomsOf(_)
AtomsOf(filters) ==
    IF filters = <<>> THEN <<>>
    ELSE (IF Head(filters).tag = "atom" THEN <<Head(filters)>>
          ELSE AtomsOf(Head(filters).operands))
             \o AtomsOf(Tail(filters))

BagOfSeq(seq) ==
    [e \in Range(seq) |-> Cardinality({i \in 1..Len(seq) : seq[i] = e})]

Orderings(seq) ==
    {[i \in 1..Len(seq) |-> seq[f[i]]] :
        f \in {g \in [1..Len(seq) -> 1..Len(seq)] :
                  \A i, j \in 1..Len(seq) : g[i] = g[j] => i = j}}

\* the clause just folded is of the given type
Folded(c, type) ==
    /\ cv[c].pc = "where"
    /\ cv[c].ci >= 1
    /\ cv[c].where[cv[c].ci] = type

FiltersIn(tabs, subject) ==
    IF subject \in DOMAIN tabs THEN tabs[subject].filters ELSE <<>>

IsTypeTriple(t) ==
    t.subject.termType = "Variable" /\ t.object.termType = "NamedNode"
      /\ IsTypePredicate(t.predicate)

IsValueTriple(t) ==
    t.subject.termType = "Variable" /\ t.object.termType = "NamedNode"
      /\ ~IsTypePredicate(t.predicate)

\* C4: triple order does not matter inside one basic pattern: folding any
\* permutation of the pattern's triples from the same tables succeeds exactly
\* when the fold did and leaves every subject's Table with the same multiset
\* of filter atoms; and for a type triple (?x P31 D) and a value triple
\* (?x P v), in either order, the Table's domain is the schema's table for D
\* and the pattern adds exactly one filter, the atom for P.
C4_TripleOrder ==
    \A c \in Convs :
        /\ Folded(c, "bgp") =>
             \A q \in Orderings(cv[c].triples) :
                LET r == ParseBasic(cv[c].base, q, keywords)
                IN  /\ r.ok
                    /\ DOMAIN r.tables = DOMAIN tables
                    /\ \A s \in DOMAIN tables :
                         BagOfSeq(AtomsOf(r.tables[s].filters))
                           = BagOfSeq(AtomsOf(tables[s].filters))
        /\ (cv[c].pc = "done" /\ cv[c].failedAt = "triple"
                /\ cv[c].where[cv[c].ci] = "bgp") =>
             \A q \in Orderings(cv[c].triples) :
                ~ParseBasic(cv[c].base, q, keywords).ok
        /\ (Folded(c, "bgp") /\ Len(cv[c].triples) = 2) =>
             \A i \in 1..2 :
                LET type == cv[c].triples[i]
                    value == cv[c].triples[3 - i]
                    s == ValueOf(type.subject)
                IN  (IsTypeTriple(type) /\ IsValueTriple(value)
                        /\ value.subject = type.subject) =>
                      /\ tables[s].domain = GetTable(type.object.name)
                      /\ Len(tables[s].filters) = Len(FiltersIn(cv[c].base, s)) + 1
                      /\ tables[s].filters[Len(tables[s].filters)].tag = "atom"
                      /\ tables[s].filters[Len(tables[s].filters)].field
                           = GetProperty(value.predicate.name)
                      /\ tables[s].filters[Len(tables[s].filters)].value.code
                           = value.object.name

\* a pattern of two different value triples of one subject was folded into
\* one And of two atoms
C4_Witness ==
    \E c \in Convs :
        /\ Folded(c, "bgp")
        /\ Len(cv[c].triples) = 2
        /\ IsValueTriple(cv[c].triples[1])
        /\ IsValueTriple(cv[c].triples[2])
        /\ cv[c].triples[1] # cv[c].triples[2]
        /\ cv[c].triples[1].subject = cv[c].triples[2].subject
        /\ tables[ValueOf(cv[c].triples[1].subject)].filters
              = <<AndExp(AtomsOf(tables[ValueOf(cv[c].triples[1].subject)].filters))>>
        /\ Len(AtomsOf(tables[ValueOf(cv[c].triples[1].subject)].filters)) = 2

SubjectsOf(converted) == {converted[i].subject : i \in 1..Len(converted)}

\* the union had two branches: both were converted, and the union was
\* folded or the merge of the second branch threw
TwoBranches(c) ==
    /\ cv[c].ci >= 1
    /\ cv[c].where[cv[c].ci] = "union"
    /\ Len(cv[c].branches) = 2
    /\ cv[c].pc \in {"where", "done"}

Generated(c) == cv[c].pc = "done" /\ cv[c].failedAt \in {"none", "generate"}

NamesOf(variables) == [i \in 1..Len(variables) |-> variables[i].name]

\* the table's subject or one of its projections is among the variables
HasSelected(names, subject, table) ==
    \/ subject.prefix = "" /\ \E i \in 1..Len(names) : names[i] = subject.name
    \/ \E i \in 1..Len(table.projections), j \in 1..Len(names) :
          table.projections[i].variable = names[j]

\* the table gives a query: a boolean question or selected output
YieldsOutput(names, subject, table) ==
    Len(table.verifications) > 0 \/ HasSelected(names, subject, table)

\* C6: convert returns a program only when exactly one Table yields an
\* output expression, and fails whenever two or more Tables have selected
\* output.
C6_ExactlyOneOutput ==
    \A c \in Convs :
        Generated(c) =>
            LET names == NamesOf(cv[c].variables)
            IN  /\ cv[c].out.kind = "program" =>
                     Cardinality({s \in DOMAIN tables :
                                     YieldsOutput(names, s, tables[s])}) = 1
                /\ Cardinality({s \in DOMAIN tables :
                                   HasSelected(names, s, tables[s])}) >= 2 =>
                     cv[c].out.kind = "failed"

\* two tables had selected output and convert failed
C6_Witness ==
    \E c \in Convs :
        /\ Generated(c)
        /\ Cardinality({s \in DOMAIN tables :
                           HasSelected(NamesOf(cv[c].variables), s, tables[s])}) = 2
        /\ cv[c].out.kind = "failed"

\* C7 (as amended): a Table may hold verifications and projections together
\* while folding; whenever convert returns a program, no Table that holds a
\* verification has a selected projection or a selected subject, and a
\* boolean question in the program carries no projection.
C7_BooleanQuestionExclusive ==
    \A c \in Convs :
        (Generated(c) /\ cv[c].out.kind = "program") =>
            /\ \A s \in DOMAIN tables :
                  Len(tables[s].verifications) > 0 =>
                      ~HasSelected(NamesOf(cv[c].variables), s, tables[s])
            /\ cv[c].out.program[1].verification # Null =>
                  cv[c].out.program[1].projection = Null

\* a program was returned for a Table that holds a verification and a
\* projection nobody selected
C7_Witness ==
    \E c \in Convs, s \in DOMAIN tables :
        /\ Generated(c)
        /\ cv[c].out.kind = "program"
        /\ cv[c].out.program[1].verification # Null
        /\ Len(tables[s].verifications) > 0
        /\ Len(tables[s].projections) > 0

\* C7 as stated: in every state a Table that holds a verification holds no
\* projection
C7_Original ==
    \A s \in DOMAIN tables :
        Len(tables[s].verifications) > 0 => Len(tables[s].projections) = 0

\* the entity values of a program
ProgramAtoms(program) == AtomsOf(program.filter \o program.verification)

\* C8: whenever convert returns a program, every entity value in it carries
\* a display label.
C8_EveryEntityLabelled ==
    \A c \in Convs :
        cv[c].out.kind = "program" =>
            \A i \in 1..Len(ProgramAtoms(cv[c].out.program[1])) :
                ProgramAtoms(cv[c].out.program[1])[i].value.display # Null

HasUnsupported(where) ==
    \E i \in 1..Len(where) : where[i] \notin {"bgp", "union"}

\* C9: a WHERE list with a filter clause, or a clause that is neither a
\* basic pattern nor a union, never gives a program: convert folds the clauses
\* before it, throws at it without passing it, and returns no program; and
\* wherever the clause stands in the list, the parser of converter2 throws
\* whatever its triple and union helpers do.
C9_UnsupportedClauseFails ==
    \A c \in Convs :
        HasUnsupported(cv[c].where) =>
            /\ cv[c].pc = "done"
            /\ cv[c].out = NoProgram
            /\ cv[c].failedAt = "clause"
            /\ cv[c].ci = Len(cv[c].where) - 1
            /\ \A i \in 1..cv[c].ci : cv[c].where[i] \in {"bgp", "union"}
            /\ \A q \in Orderings(cv[c].where) :
                  \A helperOk \in [1..Len(q) -> BOOLEAN] : ~ParseWhere2(q, helperOk)

\* convert failed on a filter clause that follows a folded basic pattern
C9_Witness ==
    \E c \in Convs :
        /\ cv[c].pc = "done"
        /\ cv[c].failedAt = "clause"
        /\ cv[c].out.kind = "failed"
        /\ cv[c].where = <<"bgp", "filter">>
        /\ cv[c].ci = 1
        /\ Len(cv[c].triples) >= 1

----------------------------------------------------------------------------
(* Claims about getLabelsByBatch *)

\* the ids the i-th network request of p's call carries
SentIds(p, i) == netLog[p][i].url.ids

\* every request carries at most 50 ids, each once, and none that had a row
\* in table labels when the call started
WellFormedRequests(p) ==
    LET asked == Range(bt[p].ids)
        cached == DOMAIN bt[p].cache0
    IN  \A i \in 1..Len(netLog[p]) :
            LET sent == Range(SentIds(p, i))
            IN  /\ Len(SentIds(p, i)) <= 50
                /\ Cardinality(sent) = Len(SentIds(p, i))
                /\ \A id \in sent : IsWikidataId(id)
                /\ sent \subseteq asked
                /\ sent \cap cached = {}

\* C10 (as amended): in any getLabelsByBatch call every network request
\* carries at most 50 ids, no id with a row in the label cache is sent, and no
\* id is sent in two different batches; a batch is sent a second time only as
\* the single retry that follows its failed first attempt.
C10_LabelBatching ==
    \A p \in Procs :
        bt[p].phase # "new" =>
            /\ WellFormedRequests(p)
            /\ \A i, j \in 1..Len(netLog[p]) :
                  (i < j /\ Range(SentIds(p, i)) \cap Range(SentIds(p, j)) # {}) =>
                      /\ j = i + 1
                      /\ netLog[p][j].url = netLog[p][i].url
                      /\ netLog[p][i].attempts = 1
                      /\ netLog[p][j].attempts = 2
                      /\ netLog[p][j].failed = 1

\* a call that was passed every id twice, found rows in the label cache, and
\* sent two batches, the first of them twice
C10_Witness ==
    \E p \in Procs :
        /\ bt[p].phase = "done"
        /\ outcome[p].kind = "return"
        /\ bt[p].cache0 # <<>>
        /\ Len(bt[p].ids) > 2 * Len(bt[p].unique)
        /\ Len(netLog[p]) = 3
        /\ SentIds(p, 1) = SentIds(p, 2)
        /\ Len(SentIds(p, 1)) = 50
        /\ Range(SentIds(p, 3)) \cap Range(SentIds(p, 1)) = {}

\* C10 as stated: no id is sent in more than one network request
C10_Original ==
    \A p \in Procs :
        bt[p].phase # "new" =>
            /\ WellFormedRequests(p)
            /\ \A i, j \in 1..Len(netLog[p]) :
                  i < j => Range(SentIds(p, i)) \cap Range(SentIds(p, j)) = {}

\* C11: redirects are never cached under the alias.  The label cache has a
\* row for a key, and the mapping of a call has an entry for a key, only if
\* the key was in the cache when the call started or an entry of a response
\* keyed by it reported it as its own identifier; an entry whose identifier
\* differs from its key adds nothing.
OwnKeys(p) == {e.key : e \in {f \in bt[p].seen : f.key = f.id}}

AliasKeys(p) == {e.key : e \in {f \in bt[p].seen : f.key # f.id}}

C11_RedirectsNeverCached ==
    \A p \in Procs :
        bt[p].phase # "new" =>
            LET allowed == DOMAIN bt[p].cache0 \cup OwnKeys(p)
            IN  /\ DOMAIN labelCache \subseteq allowed
                /\ DOMAIN bt[p].result \subseteq allowed
                /\ \A k \in AliasKeys(p) \ allowed :
                      k \notin DOMAIN labelCache /\ k \notin DOMAIN bt[p].result

\* a call returned after a response that held redirects and own entries
C11_Witness ==
    \E p \in Procs :
        /\ bt[p].phase = "done"
        /\ outcome[p].kind = "return"
        /\ AliasKeys(p) \ DOMAIN bt[p].cache0 # {}
        /\ OwnKeys(p) \cap DOMAIN bt[p].result # {}
        /\ (OwnKeys(p) \cap DOMAIN labelCache) \ DOMAIN bt[p].cache0 # {}
        /\ AliasKeys(p) \cap DOMAIN bt[p].result = {}

\* both attempts of the request of the running operation failed, and the
\* request resolved with null
BothAttemptsFailed(p) ==
    /\ pc[p] = "idle"
    /\ call[p].failed = 2
    /\ outcome[p].kind = "return"
    /\ outcome[p].res = Null

\* C12: a null request result is treated as unknown: when both attempts of
\* the underlying request fail, getPropertyValue and getDomain complete
\* without raising.
C12_NullIsUnknown ==
    \A p \in Procs :
        (dm[p].phase = "done" /\ BothAttemptsFailed(p)) => dm[p].status = "return"

\* the operation that is running is getDomain, past its first await
InGetDomain(p) == dm[p].op = "getDomain" /\ dm[p].phase \notin {"new", "types"}

\* the instance-count query of the running getDomain was issued
CountQueryIssued(p) == InGetDomain(p) /\ call[p].url = CountUrl(dm[p].id)

\* C13: getDomain returns null for an entity without a declared type; for
\* declared types that include Q5 it returns Q5 and the type index is not
\* consulted; the instance-count query is issued only for an entity with at
\* least two declared types, none of them Q5 or Q16521, and without an
\* entry in the type index.
C13_DomainShortCircuits ==
    \A p \in Procs :
        /\ (InGetDomain(p) /\ dm[p].status = "return" /\ dm[p].domains = <<>>)
              => dm[p].result = Null
        /\ (InGetDomain(p) /\ dm[p].status # "raise" /\ Includes(dm[p].domains, HUMAN))
              => /\ dm[p].phase = "done"
                 /\ dm[p].result = Some(HUMAN)
                 /\ ~dm[p].consulted
        /\ CountQueryIssued(p)
              => /\ Len(dm[p].domains) >= 2
                 /\ ~Includes(dm[p].domains, HUMAN)
                 /\ ~Includes(dm[p].domains, TAXON)
                 /\ dm[p].consulted
                 /\ dm[p].bootleg = Null

\* a getDomain call that returned the first row of the count query
C13_Witness ==
    \E p \in Procs :
        /\ dm[p].phase = "done"
        /\ dm[p].status = "return"
        /\ CountQueryIssued(p)
        /\ Len(netLog[p]) >= 1
        /\ dm[p].result = Some(COUNTRY)
        /\ dm[p].domains = <<CITY, COUNTRY>>

----------------------------------------------------------------------------
(* Claims about utils/misc *)

\* the whitespace-separated tokens of a text: its maximal runs of characters
\* that are not whitespace
WordsOf(str) ==
    SelectSeq(SplitAt(str, {i \in 1..Len(str) : IsWhitespace(str[i])}),
              LAMBDA tok : tok # <<>>)

\* the number of spans shorter than len among the spans of n tokens
SpansBefore(n, len) == (len - 1) * n - ((len - 1) * (len - 2)) \div 2

\* C14: for a text with n whitespace-separated tokens after one trailing
\* '.', '!' or '?' is removed, getSpans returns exactly n(n+1)/2 strings:
\* every contiguous token subsequence joined by single spaces, by increasing
\* length and, within a length, by increasing start position.
C14_SpanEnumeration ==
    (ms.op = "getSpans" /\ ms.done) =>
        LET words == WordsOf(removeEndPunctuation(ms.s))
            n == Len(words)
        IN  /\ Len(ms.result) = (n * (n + 1)) \div 2
            /\ \A len \in 1..n : \A start \in 1..(n - len + 1) :
                  ms.result[SpansBefore(n, len) + start]
                      = JoinWithSpace(SubSeq(words, start, start + len - 1))

\* C15: for all strings and both modes, similarity is at least 0 and at
\* most 1, and it is 0 when either token list is empty after stopword
\* removal.
C15_SimilarityRange ==
    (ms.op = "similarity" /\ ms.done) =>
        /\ FracLeq(Frac(0, 1), ms.result)
        /\ FracLeq(ms.result, Frac(1, 1))
        /\ (CleanTokens(ms.s) = <<>> \/ CleanTokens(ms.t) = <<>>)
              => FracEq(ms.result, Frac(0, 1))

\* the cleaned token lists of the two arguments share no token
Disjoint(s1, s2) ==
    \A i \in 1..Len(CleanTokens(s1)) : \A j \in 1..Len(CleanTokens(s2)) :
        CleanTokens(s1)[i] # CleanTokens(s2)[j]

\* C16: similarity(x, x, f1) is 1 for every x that keeps a token after
\* stopword removal; similarity(x, y) is 0 in both modes when the cleaned
\* token lists of x and y share no token.
C16_SimilarityFixedPoints ==
    (ms.op = "similarity" /\ ms.done) =>
        /\ (ms.s = ms.t /\ ms.algorithm = "f1" /\ CleanTokens(ms.s) # <<>>)
              => FracEq(ms.result, Frac(1, 1))
        /\ Disjoint(ms.s, ms.t) => FracEq(ms.result, Frac(0, 1))

\* similarity(x, x, f1) was computed for an x with a repeated token
C16_Witness ==
    /\ ms.op = "similarity" /\ ms.done
    /\ ms.s = ms.t /\ ms.algorithm = "f1"
    /\ Len(CleanTokens(ms.s)) = 2
    /\ CleanTokens(ms.s)[1] = CleanTokens(ms.s)[2]
    /\ ms.s[1] # ms.s[Len(ms.s)]
    /\ FracEq(ms.result, Frac(1, 1))

\* the score of the i-th candidate of the closest call
ScoreOf(i) == similarity(ms.s, ms.arr[i], ms.algorithm)

\* the candidates that score strictly above the threshold
AboveThreshold == {i \in 1..Len(ms.arr) : FracLess(ms.threshold, ScoreOf(i))}

\* the candidates whose score is the maximum over all candidates
Maximal == {i \in 1..Len(ms.arr) : \A j \in 1..Len(ms.arr) : FracLeq(ScoreOf(j), ScoreOf(i))}

\* C17: closest returns null exactly when no candidate scores strictly
\* above the threshold; otherwise it returns the first candidate in the list
\* among those whose score is the maximum over all candidates, and that
\* score is strictly above the threshold.
C17_ClosestFirstMaximum ==
    (ms.op = "closest" /\ ms.done) =>
        /\ ms.result = Null <=> AboveThreshold = {}
        /\ ms.result # Null =>
              \E i \in Maximal :
                  /\ ms.result = Some(ms.arr[i])
                  /\ i \in AboveThreshold
                  /\ \A j \in Maximal : i <= j

\* closest returned the first of two different candidates that tie at the
\* maximum, after a candidate that scores less
C17_Witness ==
    /\ ms.op = "closest" /\ ms.done
    /\ Len(ms.arr) >= 2
    /\ \E i, j \in Maximal :
          /\ i < j
          /\ ms.arr[i] # ms.arr[j]
          /\ ms.result = Some(ms.arr[i])
          /\ FracLess(ms.threshold, ScoreOf(i))
    /\ FracLess(Frac(0, 1), ms.threshold)

----------------------------------------------------------------------------
(* Claims about unions, aggregates and overlapping convert calls *)

\* C18: only 2-way unions are supported: a union clause whose number of
\* branches is not exactly two makes convert fail, and no union is folded
\* into an Or with another number of operands.
C18_OnlyTwoWayUnions ==
    \A c \in Convs :
        Folded(c, "union") =>
            /\ Len(cv[c].branches) = 2
            /\ Len(cv[c].un.operands) = 2

\* C19: a query that selects a count aggregate over ?x with the triples
\* (?x isInstanceOf country) and (?x continent Europe) converts to a program
\* on the country table filtered by contains(continent, Europe).
C19_CountQueryConverts ==
    \A c \in Convs :
        (/\ cv[c].pc = "done"
         /\ cv[c].where = <<"bgp">>
         /\ cv[c].triples = CountryInEurope
         /\ cv[c].failedAt # "triple"
         /\ cv[c].variables = <<CountOf("x")>>)
            => /\ cv[c].out.kind = "program"
               /\ cv[c].out.program[1].domain = Some(<<"country">>)
               /\ \E i \in 1..Len(cv[c].out.program[1].filter[1].operands) :
                     LET atom == cv[c].out.program[1].filter[1].operands[i]
                     IN  /\ atom.operator = "contains"
                         /\ atom.field = <<"continent">>
                         /\ atom.value.code = "Q46"

\* what a convert call of one basic pattern returns when it runs alone
AloneResult(triples, kws, variables) ==
    LET st == ParseBasic(NoTables, triples, ResetKeywords(kws))
    IN  IF st.ok THEN Generate(st.tables, variables) ELSE NoProgram

\* C20: two overlapping convert calls on one converter do not share state:
\* a call in progress keeps the Table it set up for a type triple, and a
\* call of one basic pattern returns what it returns when it runs alone.
C20_NoSharedState ==
    \A c \in DOMAIN cv :
        /\ cv[c].pc \in {"bgp", "where"} =>
              \A i \in 1..Len(cv[c].triples) :
                  IsTypeTriple(cv[c].triples[i]) =>
                      /\ ValueOf(cv[c].triples[i].subject) \in DOMAIN tables
                      /\ tables[ValueOf(cv[c].triples[i].subject)].domain
                            = GetTable(cv[c].triples[i].object.name)
        /\ (cv[c].pc = "done" /\ cv[c].where = <<"bgp">> /\ cv[c].failedAt # "triple") =>
              \E kws \in KeywordLists :
                  cv[c].out = AloneResult(cv[c].triples, kws, cv[c].variables)

----------------------------------------------------------------------------
(* Claims about the batch driver, the reset of the converter and folding *)

\* the number of times item i occurs in a sink
Records(sink, i) == Cardinality({k \in 1..Len(sink) : sink[k] = i})

\* C21: the batch driver runs one conversion at a time and isolates
\* failures: at most one convert is in flight, the driver never stops before
\* the items are exhausted, every failed item is logged (and written to the
\* drop sink if there is one), and no item has both an output line and a
\* drop record, a finished item having exactly one of them unless it failed
\* with no drop sink configured.
C21_DriverIsolatesItems ==
    /\ Cardinality(dr.inflight) <= 1
    /\ ~dr.exited
    /\ \A i \in dr.failed :
          /\ Records(dr.logged, i) = 1
          /\ dr.drop => Records(dr.dropped, i) = 1
    /\ \A i \in 1..dr.fed :
          /\ Records(dr.output, i) + Records(dr.dropped, i) <= 1
          /\ (i \notin dr.inflight /\ (i \notin dr.failed \/ dr.drop))
                => Records(dr.output, i) + Records(dr.dropped, i) = 1

\* convert has run _reset and has not yet taken a clause of the where
AtFoldingStart(c) == cv[c].pc = "where" /\ cv[c].where = <<>>

\* C22: per-query state is reset: when the folding of a convert call starts,
\* whether it is the first call on the converter or follows a call that
\* returned or failed, the Table map is empty, the keywords are those of
\* this call and nothing else of the converter differs from a first call,
\* so that the call proceeds as a call on a new converter would.
C22_ResetPerQuery ==
    \A c \in Convs :
        AtFoldingStart(c) =>
            /\ tables = NoTables
            /\ \E kws \in KeywordLists : keywords = ResetKeywords(kws)
            /\ [cv[c] EXCEPT !.prior = "none", !.left = 0]
                  = [IdleConv EXCEPT !.pc = "where"]

\* a call starts folding after a call that failed and left Tables behind
C22_Witness ==
    /\ AtFoldingStart(1)
    /\ cv[1].prior = "failed" /\ cv[1].left > 0
    /\ tables = NoTables

\* the filters _convertTriples holds for a subject in filtersBySubject
PendingFilters(fbs, subject) ==
    LET at == {i \in 1..Len(fbs) : fbs[i].subject = subject}
    IN  IF at = {} THEN <<>> ELSE fbs[CHOOSE i \in at : TRUE].filters

\* the step is an iteration of _convertTriples of call c on a triple with a
\* variable subject and an object that is not a variable
FoldsConcrete(c) ==
    IF Len(cv'[c].triples) = Len(cv[c].triples) + 1
    THEN /\ cv'[c].triples[Len(cv'[c].triples)].subject.termType = "Variable"
         /\ cv'[c].triples[Len(cv'[c].triples)].object.termType # "Variable"
    ELSE FALSE

\* C23: every triple with a variable subject and a concrete object has an
\* effect: folding it either makes convert fail, or, for an is-instance-of
\* predicate, sets the name of the subject's Table and adds no filter, or,
\* for any other predicate, adds exactly one atom for that property to the
\* subject's filters, with operator contains for an array property and ==
\* otherwise; this for entity and literal objects alike.
C23_ConcreteObjectHasEffect ==
    [][\A c \in Convs :
         FoldsConcrete(c) =>
            LET t == cv'[c].triples[Len(cv'[c].triples)]
                s == ValueOf(t.subject)
                before == PendingFilters(cv[c].fbs, s)
                after == PendingFilters(cv'[c].fbs, s)
            IN  \/ cv'[c].failedAt = "triple"
                \/ /\ IsTypePredicate(t.predicate)
                   /\ s \in DOMAIN tables'
                   /\ tables'[s].domain = GetTable(t.object.name)
                   /\ after = before
                   /\ FiltersIn(tables', s) = FiltersIn(tables, s)
                \/ /\ ~IsTypePredicate(t.predicate)
                   /\ IF Len(after) = Len(before) + 1
                      THEN after = Append(before,
                                     Atom(GetProperty(t.predicate.name),
                                          IF GetPropertyType(t.predicate.name)[1].array
                                          THEN "contains" ELSE "==",
                                          after[Len(after)].value))
                      ELSE FALSE
      ]_vars

----------------------------------------------------------------------------
(* Claims about the having clause *)

\* the literals that denote a number
NumericLiterals == {"5"}

\* the having condition is one the specification accepts: one grouping
\* variable that is the subject of a Table, and count(v) <op> <numeric
\* literal> with v projected by that Table
Acceptable(tabs, having, group) ==
    /\ group # Null
    /\ Len(group[1]) = 1
    /\ group[1][1].expression.termType = "Variable"
    /\ ValueOf(group[1][1].expression) \in DOMAIN tabs
    /\ having.type = "operation"
    /\ having.args[1].type = "aggregate"
    /\ having.args[1].aggregation = "count"
    /\ ~having.args[1].distinct
    /\ having.args[1].expression.termType = "Variable"
    /\ having.args[2].termType = "Literal"
    /\ having.args[2].name \in NumericLiterals
    /\ \E i \in 1..Len(tabs[ValueOf(group[1][1].expression)].projections) :
          tabs[ValueOf(group[1][1].expression)].projections[i].variable
             = having.args[1].expression.name

\* the step is convert meeting the having clause of the query
MeetsHaving(c) == cv[c].pc = "where" /\ cv'[c].hv.present

\* the step is _parseHavingClause taking one condition
TakesCondition(c) == cv'[c].hv.n = cv[c].hv.n + 1

\* C24: having folding: a having condition is accepted only when there is
\* exactly one grouping variable, that variable is the subject of a Table and
\* the condition is count(v) <op> <numeric literal> with v projected by that
\* Table; then exactly one Aggregate over the projection's field is appended
\* to that Table's filters, > having become >= and < having become <=; in
\* every other case convert fails and the Tables are left as they were.
C24_HavingFolding ==
    [][\A c \in Convs :
         /\ (MeetsHaving(c)
               /\ (cv'[c].hv.group = Null \/ Len(cv'[c].hv.group[1]) # 1))
              => (cv'[c].failedAt = "having" /\ tables' = tables)
         /\ TakesCondition(c) =>
              LET having == cv'[c].hv.last[1]
                  s == ValueOf(cv[c].hv.group[1][1].expression)
                  op == having.operator
              IN  IF Acceptable(tables, having, cv[c].hv.group)
                  THEN /\ cv'[c].failedAt = "none"
                       /\ tables' = [tables EXCEPT ![s].filters =
                             Append(@, [tag |-> "compute", aggregation |-> "count",
                                        operands |->
                                           <<FindProjection(tables[s].projections,
                                               having.args[1].expression.name)[1].property>>,
                                        operator |-> IF op = ">" THEN ">="
                                                     ELSE IF op = "<" THEN "<=" ELSE op,
                                        value |-> Some(5)])]
                  ELSE /\ cv'[c].failedAt = "having"
                       /\ tables' = tables
      ]_vars

\* the Aggregate conditions among the filters of all Tables
AggregatesIn(tabs) ==
    {<<s, i>> \in UNION {{s} \X (1..Len(tabs[s].filters)) : s \in DOMAIN tabs} :
        tabs[s].filters[i].tag = "compute"}

\* C29: no having condition is silently dropped: when the query has a having
\* clause, with or without a group by, and convert returns a program, every
\* condition of the clause has appended an Aggregate to a Table: there is at
\* least one, and as many as conditions were taken.
C29_NoHavingDropped ==
    \A c \in Convs :
        (cv[c].pc = "done" /\ cv[c].hv.present /\ cv[c].out.kind = "program") =>
            /\ cv[c].hv.n >= 1
            /\ Cardinality(AggregatesIn(tables)) = cv[c].hv.n

----------------------------------------------------------------------------
(* Claims about generation, the growth of the Tables and their keys *)

\* the query the specification describes for a Table without verifications
\* whose selected fields are projections
WrappedAsSpecified(table, projections) ==
    Expression(table.domain,
               IF Len(table.filters) = 0 THEN Null
               ELSE IF Len(table.filters) = 1 THEN Some(table.filters[1])
               ELSE Some(AndExp(table.filters)),
               IF projections = <<Some("id")>> THEN Null ELSE Some(projections),
               Null)

\* C25: generation wrapping for a selected Table without verifications: the
\* program convert returns is the base query of the Table, wrapped in a
\* filter only if the Table has filters, the filter being the single
\* condition if there is one and an And of all of them if there are more,
\* and wrapped in a projection of the selected fields exactly when these are
\* anything other than the single identity field.
C25_GenerationWrapping ==
    \A c \in Convs :
        (cv[c].pc = "done" /\ cv[c].out.kind = "program"
            /\ cv[c].out.program[1].verification = Null) =>
           \E s \in DOMAIN tables :
              /\ Len(tables[s].verifications) = 0
              /\ cv[c].out.program[1]
                   = WrappedAsSpecified(tables[s],
                        SelectedProjections(VariableNames(cv[c].variables).val[1],
                                            s, tables[s]))

IsPrefix(a, b) == Len(a) <= Len(b) /\ SubSeq(b, 1, Len(a)) = a

\* every Table of old is in new, with its filters, projections and
\* verifications kept in place at the front of the new lists
GrowsFrom(old, new) ==
    /\ DOMAIN old \subseteq DOMAIN new
    /\ \A s \in DOMAIN old :
          /\ IsPrefix(old[s].filters, new[s].filters)
          /\ IsPrefix(old[s].projections, new[s].projections)
          /\ IsPrefix(old[s].verifications, new[s].verifications)

\* the Table of a subject before a step that names it
TableBefore(tabs, subject) ==
    IF subject \in DOMAIN tabs THEN tabs[subject] ELSE EmptyTable

\* new differs from old in the Table of the subject alone
OnlyTableOf(old, new, subject) ==
    /\ DOMAIN new = DOMAIN old \cup {subject}
    /\ \A s \in DOMAIN old \ {subject} : new[s] = old[s]

\* C26: Tables only grow during one conversion: after the reset no step of
\* convert removes a Table or removes or reorders an element of a Table's
\* filters, projections or verifications; and each of _addFilter,
\* _addProjection, _addVerification and _setDomain, applied to the Tables
\* a step is about to change, changes the Table of the subject it names
\* only, and in it only the field it is about, to which it appends one
\* element.
C26_TablesOnlyGrow ==
    [][\A c \in Convs :
         (cv[c].pc \notin {"idle", "done"} /\ tables' # tables) =>
            /\ GrowsFrom(tables, tables')
            /\ \A s \in DOMAIN tables' :
                 LET was == TableBefore(tables, s)
                     f == AddFilter(tables, s, OrExp(<<>>))
                     p == AddProjection(tables, s, [variable |-> "y",
                                                    property |-> Some("capital")])
                     v == AddVerification(tables, s, OrExp(<<>>))
                     d == SetDomain(tables, s, "Q6256")
                 IN  /\ OnlyTableOf(tables, f, s)
                     /\ f[s] = [was EXCEPT !.filters = Append(@, OrExp(<<>>))]
                     /\ OnlyTableOf(tables, p, s)
                     /\ p[s] = [was EXCEPT !.projections =
                                   Append(@, [variable |-> "y",
                                              property |-> Some("capital")])]
                     /\ OnlyTableOf(tables, v, s)
                     /\ v[s] = [was EXCEPT !.verifications = Append(@, OrExp(<<>>))]
                     /\ OnlyTableOf(tables, d, s)
                     /\ d[s] = [was EXCEPT !.domain = GetTable("Q6256")]
      ]_vars

\* two Tables, one of which got a second filter after the other was made
C26_Witness ==
    /\ Cardinality(DOMAIN tables) >= 2
    /\ \E s \in DOMAIN tables : Len(tables[s].filters) >= 2
    /\ \E c \in Convs : cv[c].pc = "where"

\* the subjects of the triples call c has folded in the clause it is in: those
\* of the pattern or branch at hand and those of the branches already merged
SubjectsFolded(conv) ==
    {ValueOf(conv.triples[i].subject) : i \in 1..Len(conv.triples)}
       \cup UNION {SubjectsOf(conv.branches[j]) : j \in 1..Len(conv.branches)}

\* C28: every key of the Table map is the subject of a triple that was
\* folded: a step of convert adds a Table only under the subject of a triple
\* of the pattern it is folding, or of a branch of the union it is folding,
\* also when the branches of the union contribute no filter condition.
C28_KeysAreSubjects ==
    [][\A c \in Convs :
          \A k \in DOMAIN tables' \ DOMAIN tables : k \in SubjectsFolded(cv'[c])
      ]_vars

----------------------------------------------------------------------------
(* Claims about overlapping requests *)

\* p and q have finished caching-enabled requests for one URL, each after a
\* network call of its own: both had missed the cache before either wrote it
Overlapped(p, q) ==
    /\ p # q
    /\ Finished(p) /\ Finished(q)
    /\ call[p].caching /\ call[q].caching
    /\ call[p].url = call[q].url
    /\ netLog[p] # <<>> /\ netLog[q] # <<>>

\* C27: overlapping identical requests: when two caching-enabled requests
\* for the same uncached URL overlap and every network call succeeds, both
\* return the same non-null parsed result, neither raises, and the cache
\* holds one row for the URL, the response written first.
C27_OverlappingRequests ==
    \A p, q \in DOMAIN pc :
        Overlapped(p, q) =>
            /\ outcome[p].kind = "return" /\ outcome[q].kind = "return"
            /\ outcome[p].res # Null
            /\ outcome[p].res = outcome[q].res
            /\ HasRow(httpCache, call[p].url)
            /\ outcome[p].res = Some(JSONParse(httpCache[call[p].url]))
            /\ firstOk[call[p].url].val = JSONParse(httpCache[call[p].url])

\* two requests overlapped and the network answered them differently
C27_Witness ==
    /\ Overlapped(1, 2)
    /\ body[1] # body[2]
    /\ call[1].attempts + call[2].attempts = 3

----------------------------------------------------------------------------
(* Claims about the symmetry of similarity *)

\* C30: similarity is symmetric: for all token lists a and b, lists with
\* repeated tokens included, and for both modes, similarity(a, b) equals
\* similarity(b, a).
C30_SimilaritySymmetric ==
    (ms.op = "similarity" /\ ms.done) =>
        FracEq(ms.result, similarity(ms.t, ms.s, ms.algorithm))

====
